---- MODULE Spec2Model ----
(***************************************************************************)
(* The publishing task orchestrator of xhs-auto-post: XiaohongshuAgent of  *)
(* src/agent/xiaohongshu/xiaohongshu_agent.py.                             *)
(*                                                                         *)
(* run_posting_task is a coroutine.  Every action of a run below is the    *)
(* code from one suspension point (an await) to the next one; the control  *)
(* operations, stop(), the background deletion tasks and an external       *)
(* cancellation interleave at these points, as asyncio schedules them.     *)
(***************************************************************************)
EXTENDS Integers, Sequences, FiniteSets, TLC

\* ------------------------------------------------------------------ bounds
MaxQueue == 1        \* most content directories under posts_dir, any content
BreakerQueue == 5    \* content directories of the circuit-breaker scenario
MaxEvents == 2       \* most environment events in one behaviour: control
                     \* operations, cancellations and failures of callees
OverlapEvents == 1   \* environment events while two calls overlap
MaxRuns == 2         \* most invocations of run_posting_task in one behaviour
MaxCookies == 2       \* most cookie records in a list handed to save_cookies
MaxFiles == 3         \* most entries of a content directory handed to the scanner
MaxPathLen == 3      \* most components of a source_dir handed to the cleanup
MaxProbeQueue == 3   \* most entries of a queue handed to the queue removal
TermQueue == 2       \* items of the queue of the runs checked for termination
TermEvents == 2      \* environment events of those runs
MaxRecords == 2      \* most records of a cookie file handed to the validation
MaxUrlLen == 3       \* most parts of a URL the browser ends at

\* ------------------------------------------------------- program constants
max_failures == 3        \* run_posting_task: consecutive failures allowed
max_retries == 2         \* run_posting_task: retries after the first attempt
DefaultMaxPosts == 5     \* run_posting_task: default of max_posts
BackoffBase == 5         \* wait_time = 5 + consecutive_failures * 3
BackoffStep == 3
ShortText == 10          \* len(final_result_str) < 10

Runs == {"r1", "r2"}     \* invocations of run_posting_task (one asyncio task each)
Callers == {"r1"}        \* the task of a caller that awaits each call before the next

\* The values of the argument max_posts that are tried: one item, and the
\* default
MaxPostsArgs == {1, DefaultMaxPosts}

VARIABLES
  \* ---- the agent object (self.*)
  available_posts,   \* self.available_posts: sequence of source directories
  is_running, is_paused, stop_requested,
  browser, browser_context,          \* "None" or "session"
  use_cookie_login,  \* browser_config["use_cookie_login"]
  \* ---- the file system and the environment
  content,           \* directory iteration order of posts_dir at construction
  disk,              \* source directories still present under posts_dir
  img,               \* img[d]: directory d holds a recognised image
  collab,            \* "any": the automation collaborator may answer anything;
                     \* "failing": it never reports a publication
  events_left,       \* environment events the behaviour may still take
  runs_left,         \* invocations the behaviour may still take
  \* ---- background tasks
  del_sched,         \* deletion tasks created, not yet started
  del_run,           \* deletion tasks whose rmtree runs in a worker thread
  stop_pc,           \* stop(): "idle", "stop_ctx", "stop_brw"
  \* ---- each invocation of run_posting_task (locals and position)
  pc, posts, i, consecutive_failures, retry_count, results,
  wait_left,         \* ticks the backoff loop still has to wait
  fin_how, fin_val,  \* what the finally block completes with
  ret, exit,         \* the value handed to the caller / how the call ended
  \* ---- history of the current invocation (read by the properties only)
  attempts,          \* attempts[r][k]: browser_agent.run calls for item k
  last_verdict,      \* verdict of the attempt whose follow-up is pending
  opened,            \* setup_browser created a browser in this invocation
  stop_called,       \* request_stop() was called while the run was active
  path,              \* "none", "after_stop" (the call found stop_requested
                     \* set), "empty" (queue empty), "login" (login
                     \* failed), "loop"
  \* ---- one application of a function of the agent to an input
  probe,             \* the input and, once applied, the output
  \* ---- the web UI tab (xiaohongshu_agent_tab.py)
  ui,                \* the buttons, the output box, the position of the
                     \* start handler
  \* ---- the cookie store (cookie_manager.py)
  store              \* the store file, one save_cookies and one
                     \* load_saved_cookies call

agentVars == <<available_posts, is_running, is_paused, stop_requested,
               browser, browser_context, use_cookie_login>>
envVars   == <<content, disk, img, collab>>
budgetVars == <<events_left, runs_left>>
probeVars == <<probe>>
uiVars    == <<ui>>
storeVars == <<store>>
sideVars  == <<probeVars, uiVars, storeVars>>
bgVars    == <<del_sched, del_run, stop_pc>>
runVars   == <<pc, posts, i, consecutive_failures, retry_count, results,
               wait_left, fin_how, fin_val, ret, exit>>
histVars  == <<attempts, last_verdict, opened, stop_called, path>>
vars == <<agentVars, envVars, budgetVars, bgVars, runVars, histVars, sideVars>>

\* ---------------------------------------------------------------- records
\* A result record.  Keys a Python dict lacks are 0 (step_number),
\* -1 (retry_count) or FALSE (retry_needed, fatal).
Rec(err, ok, again) ==
  [success |-> ok, error |-> err, retry_needed |-> again,
   step_number |-> 0, retry_count |-> -1, fatal |-> FALSE]

StoppedRecord    == Rec("stopped_by_user", FALSE, FALSE)
NoImageRecord    == Rec("no_image", FALSE, FALSE)
ConnLostRecord   == Rec("browser_disconnected", FALSE, FALSE)
AgentExcRecord   == Rec("agent_exception", FALSE, FALSE)
CancelledRecord  == Rec("", FALSE, FALSE)     \* "error": str(CancelledError())
RetryRecord      == Rec("page_error_retry", FALSE, TRUE)
FailedRecord     == Rec("none", FALSE, FALSE)
PublishedRecord  == Rec("none", TRUE, FALSE)
NoContentRecord  == Rec("no_content", FALSE, FALSE)
LoginFailedRecord == Rec("login_failed", FALSE, FALSE)
FatalRecord      == [Rec("run_exception", FALSE, FALSE) EXCEPT !.fatal = TRUE]
ItemErrorRecord(step) ==
  [Rec("item_exception", FALSE, FALSE) EXCEPT !.step_number = step]

\* result.update({"step_number": i, ..., "retry_count": retry_count})
Stamp(res, step, rc) == [res EXCEPT !.step_number = step, !.retry_count = rc]

\* ------------------------------------------------------------- classifier
\* What the classifier reads of the collaborator's answer: which marker sets
\* occur in final_result_str, whether "published=true" occurs in str(result),
\* and the length of final_result_str up to ShortText characters.
\* "maximum steps" is itself a member of failure_indicators and is 13
\* characters long; a text in which a marker occurs is not empty.
ResultTexts ==
  { t \in [succ : BOOLEAN, fail : BOOLEAN, retry : BOOLEAN,
           url : BOOLEAN, maxsteps : BOOLEAN, len : {0, ShortText - 1, ShortText}] :
      /\ t.maxsteps => t.fail /\ t.len = ShortText
      /\ (t.succ \/ t.fail \/ t.retry) => t.len > 0 }

\* Classifier that tests the hard-failure markers before the retryable ones
Classify_hardfirst(t) ==
  IF t.fail /\ ~(t.succ \/ t.url) THEN "hard"
  ELSE IF t.retry /\ ~(t.succ \/ t.url) THEN "retryable"
  ELSE IF t.succ \/ t.url THEN "success"
  ELSE IF t.maxsteps \/ t.len < ShortText THEN "hard"
  ELSE "success"

\* Classifier in which a failure or retryable marker outweighs a success one
Classify_failfirst(t) ==
  IF t.retry THEN "retryable"
  ELSE IF t.fail THEN "hard"
  ELSE IF t.succ \/ t.url THEN "success"
  ELSE IF t.maxsteps \/ t.len < ShortText THEN "hard"
  ELSE "success"

\* Classifier whose fallback takes every text without a marker for published
Classify_nofallback(t) ==
  IF t.retry /\ ~(t.succ \/ t.url) THEN "retryable"
  ELSE IF t.fail /\ ~(t.succ \/ t.url) THEN "hard"
  ELSE "success"

\* Lines 744-801: the verdict of post_to_xiaohongshu for a result text
Classify(t) ==
  IF t.retry /\ ~(t.succ \/ t.url) THEN "retryable"
  ELSE IF t.fail /\ ~(t.succ \/ t.url) THEN "hard"
  ELSE IF t.succ \/ t.url THEN "success"
  ELSE IF t.maxsteps \/ t.len < ShortText THEN "hard"
  ELSE "success"

VerdictRecord(v) ==
  CASE v = "retryable" -> RetryRecord
    [] v = "hard"      -> FailedRecord
    [] v = "success"   -> PublishedRecord

\* ------------------------------------------------------------------ helpers
Range(s) == { s[k] : k \in 1..Len(s) }

\* Filter that drops a matching entry at the head of the sequence only
Filter_head(seq, drop) ==
  IF seq # <<>> /\ Head(seq) \in drop THEN Tail(seq) ELSE seq

RECURSIVE Filter(_, _)
\* [post for post in seq if post not in drop], order kept
Filter(seq, drop) ==
  IF seq = <<>> THEN <<>>
  ELSE IF Head(seq) \in drop THEN Filter(Tail(seq), drop)
       ELSE <<Head(seq)>> \o Filter(Tail(seq), drop)

\* _scan_available_posts: the sub-directories present, in iteration order
Scan == Filter(content, Range(content) \ disk)

\* posts[:max_posts]
Take(seq, n) == SubSeq(seq, 1, IF n < Len(seq) THEN n ELSE Len(seq))

Active(r) == pc[r] \notin {"idle", "done"}

\* _scan_post_directory has produced nothing
NoPost == [produced |-> FALSE, images |-> <<>>, has_text |-> FALSE]

\* ---- the cookie sources of _load_cookies
\* What a source yields: the names of the valid cookies read from it
ValidCookies == {<<>>, <<"a1">>, <<"web_session">>}

\* A cookie file: absent, or present with the valid cookies it holds (none
\* when the file is empty, malformed, or holds no valid record)
AbsentFile == [exists |-> FALSE, cookies |-> <<>>]
CookieFiles ==
  {AbsentFile} \cup { [exists |-> TRUE, cookies |-> c] : c \in ValidCookies }

\* line 348: the three default candidate paths
default_paths == 1..3

\* The surroundings of one call of _load_cookies: the configured path
\* (line 60, "" when none), the file at that path, what load_saved_cookies
\* returns, and the files at the default paths
NoSources ==
  [cookie_file_path |-> "", explicit |-> AbsentFile, saved |-> <<>>,
   defaults |-> [p \in default_paths |-> AbsentFile]]
CookieSources ==
  { s \in [cookie_file_path : {"", "given"}, explicit : CookieFiles,
           saved : ValidCookies, defaults : [default_paths -> CookieFiles]] :
      s.cookie_file_path = "" => s.explicit = AbsentFile }

\* load_cookies_from_file, cookie_manager.py lines 38-79: [] for a missing
\* file and for any error, the valid records otherwise
load_cookies_from_file(file) == IF file.exists THEN file.cookies ELSE <<>>

RECURSIVE DefaultPathCookies(_, _, _)
\* lines 354-359: the loop over default_paths from path p on, cookies being
\* the value of the variable so far; it ends at the first non-empty load
DefaultPathCookies(defaults, p, cookies) ==
  IF p \notin default_paths THEN cookies
  ELSE IF ~defaults[p].exists
         THEN DefaultPathCookies(defaults, p + 1, cookies)
         ELSE LET loaded == load_cookies_from_file(defaults[p])
              IN  IF loaded # <<>> THEN loaded
                  ELSE DefaultPathCookies(defaults, p + 1, loaded)

\* _load_cookies, lines 338-361: the cookie list handed to the browser
LoadCookies(s) ==
  IF s.cookie_file_path # "" /\ s.explicit.exists
    THEN load_cookies_from_file(s.explicit)
    ELSE IF s.saved # <<>> THEN s.saved
         ELSE DefaultPathCookies(s.defaults, 1, s.saved)

\* ---- the validation of the records of a cookie file
\* A key the record does not have, and the JSON value null
Absent == "<absent>"
Null == "<null>"

RecordNames == {Absent, "", "a1", "Web_Session", "theme"}
RecordValues == {Absent, "", "v"}
RecordDomains == {Absent, Null, ".xiaohongshu.com", ".example.com"}

\* The records a cookie file can hold
FileRecords == [name : RecordNames, value : RecordValues, domain : RecordDomains]

\* name.lower(), cookie_manager.py line 118
LowerName(name) == IF name = "Web_Session" THEN "web_session" ELSE name

\* line 116: 'xiaohongshu' in domain or 'xhscdn' in domain
DomainOfPlatform(domain) == domain = ".xiaohongshu.com"

\* lines 119-123: one of the names of the allow-list occurs in the name
NameOfPlatform(name) == LowerName(name) \in {"a1", "web_session"}

\* _validate_cookie, lines 106-127: True, False, or "raise" for the TypeError
\* of the substring test on a domain that is null
ValidateCookie(c) ==
  IF c.name = Absent \/ c.value = Absent THEN "False"
  ELSE IF c.domain = Null THEN "raise"
  ELSE IF c.domain # Absent /\ DomainOfPlatform(c.domain) THEN "True"
  ELSE IF NameOfPlatform(c.name) THEN "True"
  ELSE "False"

\* lines 66-67: a record without a domain gets the platform's
WithDefaults(c) ==
  IF c.domain = Absent THEN [c EXCEPT !.domain = ".xiaohongshu.com"] ELSE c

RECURSIVE KeepValid(_)
\* lines 62-72: the accepted records, in the order of the file
KeepValid(records) ==
  IF records = <<>> THEN <<>>
  ELSE IF ValidateCookie(Head(records)) = "True"
         THEN <<WithDefaults(Head(records))>> \o KeepValid(Tail(records))
         ELSE KeepValid(Tail(records))

\* load_cookies_from_file, lines 61-79, on the parsed records: an error in
\* the validation of one record is caught at line 77 and the load gives []
ValidRecords(records) ==
  IF \E k \in 1..Len(records) :
       /\ ValidateCookie(records[k]) = "raise"
       /\ \A j \in 1..(k - 1) : ValidateCookie(records[j]) # "raise"
    THEN <<>>
    ELSE KeepValid(records)

\* ---- the URL test of _verify_cookie_login
\* The parts a URL is made of: hosts and path segments, in the spelling the
\* browser reports
UrlParts == {"creator.xiaohongshu.com", "www.xiaohongshu.com",
             "login", "Login", "signin", "publish"}

\* str.lower() on one part of a URL
LowerPart(part) == IF part = "Login" THEN "login" ELSE part

\* current_url.lower(), line 415
LowerUrl(url) == [k \in 1..Len(url) |-> LowerPart(url[k])]

\* "part in url", the substring test of lines 412 and 415
Contains(url, part) == \E k \in 1..Len(url) : url[k] = part

\* What one call of _verify_cookie_login meets: the verdict of
\* _load_cookies, whether the context is held, whether the collaborator
\* raises during the navigation, and the URL the page ends at
NoVisit == [cookie_success |-> FALSE, has_context |-> FALSE,
            raises |-> FALSE, current_url |-> <<>>]

\* lines 412-420: the verdict read from the URL
VerdictOfUrl(current_url) ==
  IF Contains(current_url, "creator.xiaohongshu.com") THEN TRUE
  ELSE IF Contains(LowerUrl(current_url), "login")
          \/ Contains(LowerUrl(current_url), "signin") THEN FALSE
  ELSE FALSE

\* _verify_cookie_login, lines 380-425
VerifyCookieLogin(v) ==
  IF ~v.cookie_success THEN FALSE
  ELSE IF ~v.has_context THEN FALSE
  ELSE IF v.raises THEN FALSE
  ELSE VerdictOfUrl(v.current_url)

\* No function is being applied
NoProbe ==
  [fn |-> "none", n |-> 0,
   text |-> [succ |-> FALSE, fail |-> FALSE, retry |-> FALSE, url |-> FALSE,
             maxsteps |-> FALSE, len |-> 0],
   verdict |-> "none",
   source_dir |-> <<>>, removed |-> {},
   queue |-> <<>>, dir |-> 0, out |-> <<>>,
   files |-> <<>>, post |-> NoPost,
   sources |-> NoSources, cookies |-> <<>>,
   visit |-> NoVisit, valid |-> FALSE,
   records |-> <<>>, loaded |-> <<>>]
\* ---- the cookie store
\* A cookie record as the store keeps it
Cookie(n, v, d) == [name |-> n, value |-> v, domain |-> d]

\* The text json.dump writes, as the chunks it hands to the file one after
\* another: the opening of the document, one chunk per cookie, the closing
\* ("saved_at", "domain" and the final brace)
Chunk(k, c) == [kind |-> k, name |-> c.name, value |-> c.value,
                domain |-> c.domain]

Blank == Cookie("", "", "")

\* json.dump(cookie_data, f), cookie_manager.py lines 143-150
Encode(cookies) ==
  <<Chunk("open", Blank)>>
    \o [k \in 1..Len(cookies) |-> Chunk("cookie", cookies[k])]
    \o <<Chunk("close", Blank)>>

\* json.load accepts a text that is a whole document
WellFormed(text) ==
  /\ Len(text) >= 2
  /\ text[1].kind = "open" /\ text[Len(text)].kind = "close"
  /\ \A k \in 2..(Len(text) - 1) : text[k].kind = "cookie"

\* A reader that keeps the first cookie of the document only
Decode_first(text) ==
  IF WellFormed(text) /\ Len(text) > 2
    THEN <<Cookie(text[2].name, text[2].value, text[2].domain)>>
    ELSE <<>>

\* json.load(f) and data.get('cookies', []), lines 163-166; a text that is
\* no document raises, and the handler of line 172 answers []
Decode(text) ==
  IF WellFormed(text)
    THEN [k \in 1..(Len(text) - 2) |->
            Cookie(text[k + 1].name, text[k + 1].value, text[k + 1].domain)]
    ELSE <<>>

\* No store file, no call under way
NoStore ==
  [exists |-> FALSE, text |-> <<>>,
   save_pc |-> "idle", save_arg |-> <<>>, save_ret |-> "none",
   load_pc |-> "idle", load_saw |-> <<>>, load_found |-> FALSE,
   load_after_save |-> FALSE, load_ret |-> <<>>]

\* The tab as create_xiaohongshu_agent_tab builds it (tab lines 320-321,
\* 328-335): start enabled, stop disabled, the output box empty, no handler
\* running
NoUi ==
  [handler |-> "idle", start_interactive |-> TRUE,
   stop_interactive |-> FALSE, output |-> "empty"]

\* ------------------------------------------------------------------- Init
\* __init__ (lines 44-68): the queue is the scan of posts_dir, no session,
\* all flags False.  No run has been invoked.
InitObject ==
  /\ available_posts = content
  /\ disk = Range(content)
  /\ is_running = FALSE /\ is_paused = FALSE /\ stop_requested = FALSE
  /\ browser = "None" /\ browser_context = "None"
  /\ del_sched = {} /\ del_run = {}
  /\ stop_pc = "idle"
  /\ pc = [r \in Runs |-> "idle"]
  /\ posts = [r \in Runs |-> <<>>]
  /\ i = [r \in Runs |-> 0]
  /\ consecutive_failures = [r \in Runs |-> 0]
  /\ retry_count = [r \in Runs |-> 0]
  /\ results = [r \in Runs |-> <<>>]
  /\ wait_left = [r \in Runs |-> 0]
  /\ fin_how = [r \in Runs |-> "none"]
  /\ fin_val = [r \in Runs |-> <<>>]
  /\ ret = [r \in Runs |-> <<>>]
  /\ exit = [r \in Runs |-> "none"]
  /\ attempts = [r \in Runs |-> <<>>]
  /\ last_verdict = [r \in Runs |-> "none"]
  /\ opened = [r \in Runs |-> FALSE]
  /\ stop_called = [r \in Runs |-> FALSE]
  /\ path = [r \in Runs |-> "none"]

\* Any content root of at most MaxQueue directories, each with or without an
\* image, and a collaborator that may answer anything.
\* The agent with the full budget of events and invocations
InitAgent ==
  /\ InitObject
  /\ events_left = MaxEvents /\ runs_left = MaxRuns

InitAny ==
  /\ \E n \in 0..MaxQueue : content = [k \in 1..n |-> k]
  /\ img \in [1..MaxQueue -> BOOLEAN]
  /\ \A d \in 1..MaxQueue : d > Len(content) => img[d]
  /\ use_cookie_login \in BOOLEAN
  /\ collab = "any"
  /\ probe = NoProbe
  /\ ui = NoUi
  /\ store = NoStore
  /\ InitAgent

\* Two callers of one agent: one directory with an image, OverlapEvents
\* environment events
InitOverlap ==
  /\ content = <<1>>
  /\ img = [d \in 1..MaxQueue |-> TRUE]
  /\ use_cookie_login = TRUE
  /\ collab = "any"
  /\ probe = NoProbe
  /\ ui = NoUi
  /\ store = NoStore
  /\ InitObject
  /\ events_left = OverlapEvents /\ runs_left = MaxRuns

\* The circuit-breaker scenario: BreakerQueue directories with an image each
\* and a collaborator that never reports a publication.
InitBreaker ==
  /\ content = [k \in 1..BreakerQueue |-> k]
  /\ img = [d \in 1..BreakerQueue |-> TRUE]
  /\ use_cookie_login = TRUE
  /\ collab = "failing"
  /\ probe = NoProbe
  /\ ui = NoUi
  /\ store = NoStore
  /\ InitAgent

Init == InitAny \/ InitBreaker

\* ------------------------------------------------------ the environment
\* An environment event: a control operation, a cancellation, or a callee
\* (status callback, browser, worker thread) that raises
Event ==
  /\ events_left > 0
  /\ events_left' = events_left - 1
  /\ UNCHANGED <<runs_left, sideVars>>

NoEvent == UNCHANGED <<events_left, runs_left, sideVars>>

\* A callee returned (ok) or raised
Outcome(ok) == IF ok THEN NoEvent ELSE Event

\* ------------------------------------------------------ control operations
\* pause(), lines 1154-1157
Pause ==
  /\ Event
  /\ is_paused' = TRUE
  /\ UNCHANGED <<available_posts, is_running, stop_requested, browser,
                 browser_context, use_cookie_login>>
  /\ UNCHANGED <<envVars, bgVars, runVars, histVars>>

\* resume(), lines 1159-1162
Resume ==
  /\ Event
  /\ is_paused' = FALSE
  /\ UNCHANGED <<available_posts, is_running, stop_requested, browser,
                 browser_context, use_cookie_login>>
  /\ UNCHANGED <<envVars, bgVars, runVars, histVars>>

\* request_stop(), lines 1164-1167
RequestStop ==
  /\ Event
  /\ stop_requested' = TRUE
  /\ stop_called' = [r \in Runs |-> stop_called[r] \/ Active(r)]
  /\ UNCHANGED <<available_posts, is_running, is_paused, browser,
                 browser_context, use_cookie_login>>
  /\ UNCHANGED <<envVars, bgVars, runVars>>
  /\ UNCHANGED <<attempts, last_verdict, opened, path>>

\* signal_handler (SIGINT, SIGTERM), lines 256-258
SignalHandler ==
  /\ Event
  /\ stop_requested' = TRUE
  /\ UNCHANGED <<available_posts, is_running, is_paused, browser,
                 browser_context, use_cookie_login>>
  /\ UNCHANGED <<envVars, bgVars, runVars, histVars>>

\* get_status(), lines 1169-1179: a snapshot, it assigns nothing
get_status ==
  [is_running |-> is_running, is_paused |-> is_paused,
   stop_requested |-> stop_requested,
   available_posts_count |-> Len(available_posts),
   browser_ready |-> browser # "None",
   cookie_login_enabled |-> use_cookie_login]

\* ------------------------------------------------------------------ stop()
\* The tail of stop(), lines 1186-1199: every flag and handle is reset and
\* the content root is scanned again.
StopReset ==
  /\ is_running' = FALSE
  /\ is_paused' = FALSE
  /\ stop_requested' = FALSE
  /\ browser' = "None"
  /\ browser_context' = "None"
  /\ available_posts' = Scan
  /\ stop_pc' = "idle"

\* stop(), lines 1181-1185: request_stop(), then close_browser(), which
\* suspends only where there is a handle to close
StopCall ==
  /\ Event
  /\ stop_pc = "idle"
  /\ stop_called' = [r \in Runs |-> stop_called[r] \/ Active(r)]
  /\ IF browser_context # "None"
       THEN /\ stop_pc' = "stop_ctx"
            /\ stop_requested' = TRUE
            /\ UNCHANGED <<available_posts, is_running, is_paused, browser,
                           browser_context>>
       ELSE IF browser # "None"
         THEN /\ stop_pc' = "stop_brw"
              /\ stop_requested' = TRUE
              /\ UNCHANGED <<available_posts, is_running, is_paused, browser,
                             browser_context>>
         ELSE StopReset
  /\ UNCHANGED <<use_cookie_login, del_sched, del_run>>
  /\ UNCHANGED <<envVars, runVars>>
  /\ UNCHANGED <<attempts, last_verdict, opened, path>>

\* close_browser, lines 429-435, awaited by stop(): browser_context.close()
\* returned (ok) or raised
StopCloseCtx ==
  /\ stop_pc = "stop_ctx"
  /\ \E ok \in BOOLEAN :
       /\ Outcome(ok)
       /\ IF browser # "None"
            THEN /\ stop_pc' = "stop_brw"
                 /\ browser_context' = IF ok THEN "None" ELSE browser_context
                 /\ UNCHANGED <<available_posts, is_running, is_paused,
                                stop_requested, browser>>
            ELSE StopReset
  /\ UNCHANGED <<use_cookie_login, del_sched, del_run>>
  /\ UNCHANGED <<envVars, runVars, histVars>>

\* close_browser, lines 437-443, awaited by stop(): browser.close() is over
StopCloseBrw ==
  /\ NoEvent
  /\ stop_pc = "stop_brw"
  /\ StopReset
  /\ UNCHANGED <<use_cookie_login, del_sched, del_run>>
  /\ UNCHANGED <<envVars, runVars, histVars>>

\* ------------------------------------------------------- deletion tasks
\* _delete_post_directory_async, lines 277-299: the directory must exist and
\* lie under posts_dir (every scanned source_dir does); rmtree is handed to
\* a worker thread.  A missing directory ends the task.
DeleteStart(d) ==
  /\ d \in del_sched
  /\ del_sched' = del_sched \ {d}
  /\ del_run' = IF d \in disk THEN del_run \cup {d} ELSE del_run
  /\ NoEvent
  /\ UNCHANGED stop_pc
  /\ UNCHANGED <<agentVars, envVars, runVars, histVars>>

\* shutil.rmtree in the worker thread, line 295, and lines 300-309 back on
\* the event loop: the tree is removed and the item dropped from the live
\* queue (ok), or rmtree raises, which ends the task with a log line (lines
\* 311-313).  Nothing reads the directory between the two halves.
DeleteThread(d) ==
  /\ d \in del_run
  /\ del_run' = del_run \ {d}
  /\ \E ok \in BOOLEAN :
       /\ Outcome(ok)
       /\ disk' = IF ok THEN disk \ {d} ELSE disk
       /\ available_posts' = IF ok THEN Filter(available_posts, {d})
                             ELSE available_posts
  /\ UNCHANGED <<is_running, is_paused, stop_requested, browser,
                 browser_context, use_cookie_login>>
  /\ UNCHANGED <<del_sched, stop_pc, content, img, collab>>
  /\ UNCHANGED <<runVars, histVars>>

\* ======================================================= run_posting_task
\* The positions a run suspends at.  A position stands for the awaits that
\* follow one another with no read of the agent's state in between:
\*   "start"        lines 866, 874          "empty"       line 879
\*   "login_pre"    lines 891, 894          "new_ctx"     line 149
\*   "verify"       lines 484, 486          "login_ok"    lines 491, 910-918
\*   "login_failed" lines 479, 497, 504, 899
\*   "paused"       line 941                "breaker"     line 955
\*   "item_start"   lines 966, 976, 980     "agent_run"   line 692
\*   "retry_wait"   lines 998, 1007         "succ_status" line 1035
\*   "fail_status"  line 1055               "backoff"     lines 1081, 1089
\*   "item_exc"     line 1105               "complete"    lines 1121, 1128
\*   "reset_ctx", "reset_brw"  close_browser of line 846
\*   "fin_ctx", "fin_brw"      close_browser of line 1148
\* Status emissions that only the handler of line 1137 covers
OuterStatus == {"start", "empty", "login_pre", "login_failed", "login_ok",
                "breaker", "item_start", "item_exc", "complete"}
\* Status emissions inside the try block of login_xiaohongshu
LoginStatus == {"verify", "login_ok"}
\* Status emissions inside the item's try block
ItemStatus  == {"item_start", "retry_wait", "succ_status", "fail_status",
                "backoff"}
\* The awaits inside the try block of run_posting_task (lines 864-1132)
TryAwaits   == OuterStatus \cup LoginStatus \cup ItemStatus
                 \cup {"new_ctx", "paused", "agent_run"}

\* The item the loop is at: post_data of "for i, post_data in enumerate(...)"
post_data(r) == posts[r][i[r]]

\* line 953: if consecutive_failures >= max_failures
BreakerTripped_off(cf) == cf > max_failures
BreakerTripped(cf) == cf >= max_failures

\* line 1012: result.get("retry_needed", False) and retry_count < max_retries
ShouldRetry_more(res, rc) == res.retry_needed /\ rc <= max_retries
ShouldRetry(res, rc) == res.retry_needed /\ rc < max_retries

\* line 1068: wait_time = 5 + (consecutive_failures * 3)
WaitTime(cf) == BackoffBase + cf * BackoffStep

\* lines 882-887: the value returned for an empty queue
EmptyQueueReturn_none == <<>>
EmptyQueueReturn == <<NoContentRecord>>

\* lines 902-907: the value returned when the login failed
LoginFailedReturn_results(res) == res
LoginFailedReturn(res) == <<LoginFailedRecord>>

\* lines 1139-1145 and 1151: the fatal record joins the results returned
FatalResults_only(res) == <<FatalRecord>>
\* Handler that appends the fatal record twice
FatalResults_twice(res) == Append(Append(res, FatalRecord), FatalRecord)
FatalResults(res) == Append(res, FatalRecord)

\* lines 1146-1151, the finally block up to its first await: is_running is
\* reset, close_browser starts; it suspends only where a handle is held.
\* how = "return" (val is handed to the caller) or "raise" (CancelledError).
Finish(r, how, val) ==
  /\ is_running' = FALSE
  /\ fin_how' = [fin_how EXCEPT ![r] = how]
  /\ fin_val' = [fin_val EXCEPT ![r] = val]
  /\ IF browser_context # "None"
       THEN /\ pc' = [pc EXCEPT ![r] = "fin_ctx"]
            /\ UNCHANGED <<ret, exit>>
       ELSE IF browser # "None"
         THEN /\ pc' = [pc EXCEPT ![r] = "fin_brw"]
              /\ UNCHANGED <<ret, exit>>
         ELSE /\ pc' = [pc EXCEPT ![r] = "done"]
              /\ ret' = [ret EXCEPT ![r] = IF how = "return" THEN val ELSE <<>>]
              /\ exit' = [exit EXCEPT ![r] =
                            IF how = "return" THEN "returned" ELSE "cancelled"]

\* What Finish leaves alone
FinishFrame ==
  /\ UNCHANGED <<available_posts, is_paused, stop_requested, browser,
                 browser_context, use_cookie_login>>
  /\ UNCHANGED <<envVars, bgVars>>
  /\ UNCHANGED <<posts, i, retry_count, wait_left>>

\* A loop head that goes back to the polling wait once the pause is over
AfterPausePc_stuck(cf) == "paused"

\* lines 927-960, the head of the for loop for item idx, up to its first
\* await: the position the run suspends at.  The tests of
\* current_task.cancelled() (lines 934-937, 945-947, 1075-1078) never
\* succeed: asyncio reports a task cancelled only once it is done, so inside
\* the running task cancelled() is False.
AfterPausePc(cf) ==
  IF stop_requested THEN "complete"
  ELSE IF BreakerTripped(cf) THEN "breaker"
  ELSE "item_start"

LoopPc(r, idx, cf) ==
  IF idx > Len(posts[r]) THEN "complete"
  ELSE IF stop_requested THEN "complete"
  ELSE IF is_paused THEN "paused"
  ELSE AfterPausePc(cf)

\* Move to item idx (the loop variable keeps its last value when the
\* iteration is exhausted)
NextItem(r, idx, cf) ==
  /\ pc' = [pc EXCEPT ![r] = LoopPc(r, idx, cf)]
  /\ i' = [i EXCEPT ![r] = IF idx > Len(posts[r]) THEN i[r] ELSE idx]

\* Frame of a step that only moves the position
OnlyPc(r, p) ==
  /\ pc' = [pc EXCEPT ![r] = p]
  /\ NoEvent
  /\ UNCHANGED <<agentVars, envVars, bgVars, histVars>>
  /\ UNCHANGED <<posts, i, consecutive_failures, retry_count,
                 results, wait_left, fin_how, fin_val, ret, exit>>

\* lines 855-857 and the await of line 866
Begin(r) ==
  /\ is_running' = TRUE
  /\ pc' = [pc EXCEPT ![r] = "start"]

\* Reset of a stale run state that leaves the stop request standing
EntryReset_keepstop ==
  /\ is_paused' = FALSE
  /\ UNCHANGED stop_requested
  /\ browser' = "None"
  /\ browser_context' = "None"

\* lines 847-852: the reset of a stale run state
EntryReset ==
  /\ is_paused' = FALSE
  /\ stop_requested' = FALSE
  /\ browser' = "None"
  /\ browser_context' = "None"

\* A call of run_posting_task, lines 843-866: a stale state (is_running or
\* stop_requested) is reset after close_browser()
Invoke(r) ==
  /\ pc[r] \in {"idle", "done"}
  /\ runs_left > 0
  /\ runs_left' = runs_left - 1
  /\ UNCHANGED <<events_left, sideVars>>
  /\ posts' = [posts EXCEPT ![r] = <<>>]
  /\ i' = [i EXCEPT ![r] = 0]
  /\ consecutive_failures' = [consecutive_failures EXCEPT ![r] = 0]
  /\ retry_count' = [retry_count EXCEPT ![r] = 0]
  /\ results' = [results EXCEPT ![r] = <<>>]
  /\ wait_left' = [wait_left EXCEPT ![r] = 0]
  /\ fin_how' = [fin_how EXCEPT ![r] = "none"]
  /\ fin_val' = [fin_val EXCEPT ![r] = <<>>]
  /\ ret' = [ret EXCEPT ![r] = <<>>]
  /\ exit' = [exit EXCEPT ![r] = "none"]
  /\ attempts' = [attempts EXCEPT ![r] = <<>>]
  /\ last_verdict' = [last_verdict EXCEPT ![r] = "none"]
  /\ opened' = [opened EXCEPT ![r] = FALSE]
  /\ stop_called' = [stop_called EXCEPT ![r] = FALSE]
  /\ path' = [path EXCEPT ![r] = IF stop_requested THEN "after_stop" ELSE "none"]
  /\ IF is_running \/ stop_requested
       THEN IF browser_context # "None"
              THEN /\ pc' = [pc EXCEPT ![r] = "reset_ctx"]
                   /\ UNCHANGED <<is_running, is_paused, stop_requested,
                                  browser, browser_context>>
              ELSE IF browser # "None"
                THEN /\ pc' = [pc EXCEPT ![r] = "reset_brw"]
                     /\ UNCHANGED <<is_running, is_paused, stop_requested,
                                    browser, browser_context>>
                ELSE EntryReset /\ Begin(r)
       ELSE /\ Begin(r)
            /\ UNCHANGED <<is_paused, stop_requested, browser, browser_context>>
  /\ UNCHANGED <<available_posts, use_cookie_login>>
  /\ UNCHANGED <<envVars, bgVars>>

\* close_browser of line 846, lines 429-435: browser_context.close()
\* returned or raised
ResetCloseCtx(r) ==
  /\ pc[r] = "reset_ctx"
  /\ \E ok \in BOOLEAN :
       /\ Outcome(ok)
       /\ IF browser # "None"
            THEN /\ pc' = [pc EXCEPT ![r] = "reset_brw"]
                 /\ browser_context' = IF ok THEN "None" ELSE browser_context
                 /\ UNCHANGED <<is_running, is_paused, stop_requested, browser>>
            ELSE EntryReset /\ Begin(r)
  /\ UNCHANGED <<available_posts, use_cookie_login>>
  /\ UNCHANGED <<envVars, bgVars, histVars>>
  /\ UNCHANGED <<posts, i, consecutive_failures, retry_count,
                 results, wait_left, fin_how, fin_val, ret, exit>>

\* close_browser of line 846, lines 437-443: browser.close() is over
ResetCloseBrw(r) ==
  /\ pc[r] = "reset_brw"
  /\ NoEvent
  /\ EntryReset /\ Begin(r)
  /\ UNCHANGED <<available_posts, use_cookie_login>>
  /\ UNCHANGED <<envVars, bgVars, histVars>>
  /\ UNCHANGED <<posts, i, consecutive_failures, retry_count,
                 results, wait_left, fin_how, fin_val, ret, exit>>

\* task.cancel() while the run is suspended in close_browser (line 846 or
\* line 1148): the CancelledError is thrown at that await, which lies
\* outside every handler, and the call ends with the error at once
CancelOutsideTry(r) ==
  /\ pc[r] \in {"reset_ctx", "reset_brw", "fin_ctx", "fin_brw"}
  /\ Event
  /\ pc' = [pc EXCEPT ![r] = "done"]
  /\ exit' = [exit EXCEPT ![r] = "cancelled"]
  /\ UNCHANGED <<agentVars, envVars, bgVars>>
  /\ UNCHANGED <<posts, i, consecutive_failures, retry_count,
                 results, wait_left, fin_how, fin_val, ret>>
  /\ UNCHANGED histVars

\* task.cancel() while the run is suspended at an await inside the try
\* block, the one of browser_agent.run excepted: the CancelledError thrown
\* there is no Exception, so neither handler (lines 1091, 1137) takes it;
\* the finally block runs and the error reaches the caller
CancelInTry(r) ==
  /\ pc[r] \in TryAwaits \ {"agent_run"}
  /\ Event
  /\ Finish(r, "raise", <<>>)
  /\ FinishFrame
  /\ UNCHANGED <<consecutive_failures, results>>
  /\ UNCHANGED histVars

\* The status callback raises at an emission that only the handler of
\* line 1137 covers: the fatal record is appended, the finally block runs
CallbackFailsOuter(r) ==
  /\ pc[r] \in OuterStatus
  /\ Event
  /\ results' = [results EXCEPT ![r] = FatalResults(results[r])]
  /\ Finish(r, "return", FatalResults(results[r]))
  /\ FinishFrame
  /\ UNCHANGED <<consecutive_failures>>
  /\ UNCHANGED histVars

\* lines 1091-1105, the handler of the item's try block: the failure is
\* counted, an error record appended, a status emitted
ItemException(r) ==
  /\ consecutive_failures' =
       [consecutive_failures EXCEPT ![r] = consecutive_failures[r] + 1]
  /\ results' = [results EXCEPT ![r] = Append(results[r], ItemErrorRecord(i[r]))]
  /\ pc' = [pc EXCEPT ![r] = "item_exc"]

\* The status callback raises at an emission inside the item's try block
\* (lines 980, 998, 1035, 1055, 1081)
CallbackFailsItem(r) ==
  /\ pc[r] \in ItemStatus
  /\ Event
  /\ ItemException(r)
  /\ UNCHANGED <<agentVars, envVars, bgVars>>
  /\ UNCHANGED <<posts, i, retry_count, wait_left, fin_how, fin_val,
                 ret, exit>>
  /\ UNCHANGED histVars

\* The status callback raises inside login_xiaohongshu (lines 484, 491): its
\* handler reports the error through the callback (line 504) and the login
\* returns False.  At lines 479 and 497 the same handler leads to the same
\* place, "login_failed".
CallbackFailsLogin(r) ==
  /\ pc[r] \in LoginStatus
  /\ Event
  /\ pc' = [pc EXCEPT ![r] = "login_failed"]
  /\ UNCHANGED <<agentVars, envVars, bgVars>>
  /\ UNCHANGED <<posts, i, consecutive_failures, retry_count,
                 results, wait_left, fin_how, fin_val, ret, exit>>
  /\ UNCHANGED histVars
\* lines 866 and 874 returned; lines 868-891:
\* posts = self.available_posts or self._scan_available_posts()
StepStart(r) ==
  /\ pc[r] = "start"
  /\ NoEvent
  /\ IF stop_requested
       THEN /\ Finish(r, "return", results[r])
            /\ FinishFrame
            /\ UNCHANGED <<consecutive_failures, results, histVars>>
       ELSE LET found == IF available_posts # <<>> THEN available_posts ELSE Scan
            IN /\ posts' = [posts EXCEPT ![r] = found]
               /\ pc' = [pc EXCEPT ![r] =
                           IF found = <<>> THEN "empty" ELSE "login_pre"]
               /\ path' = [path EXCEPT ![r] =
                             IF found = <<>> THEN "empty" ELSE path[r]]
               /\ UNCHANGED <<agentVars, envVars, bgVars>>
               /\ UNCHANGED <<i, consecutive_failures, retry_count, results,
                              wait_left, fin_how, fin_val, ret, exit>>
               /\ UNCHANGED <<attempts, last_verdict, opened, stop_called>>

\* line 879 returned; lines 882-887
StepEmpty(r) ==
  /\ pc[r] = "empty"
  /\ NoEvent
  /\ Finish(r, "return", EmptyQueueReturn)
  /\ FinishFrame
  /\ UNCHANGED <<consecutive_failures, results, histVars>>

\* lines 475-486, after setup_browser: where login_xiaohongshu suspends next
AfterSetupPc == IF use_cookie_login THEN "verify" ELSE "login_failed"

\* lines 891-896 returned their awaits; login_xiaohongshu lines 463-467 and
\* setup_browser lines 88-149: a browser is created unless one is held
StepLoginPre(r) ==
  /\ pc[r] = "login_pre"
  /\ NoEvent
  /\ IF stop_requested
       THEN /\ pc' = [pc EXCEPT ![r] = "login_failed"]
            /\ UNCHANGED <<browser, opened>>
       ELSE IF browser # "None"
         THEN /\ pc' = [pc EXCEPT ![r] = AfterSetupPc]
              /\ UNCHANGED <<browser, opened>>
         ELSE /\ browser' = "session"
              /\ opened' = [opened EXCEPT ![r] = TRUE]
              /\ pc' = [pc EXCEPT ![r] = "new_ctx"]
  /\ UNCHANGED <<available_posts, is_running, is_paused, stop_requested,
                 browser_context, use_cookie_login>>
  /\ UNCHANGED <<envVars, bgVars>>
  /\ UNCHANGED <<posts, i, consecutive_failures, retry_count,
                 results, wait_left, fin_how, fin_val, ret, exit>>
  /\ UNCHANGED <<attempts, last_verdict, stop_called, path>>

\* line 149, browser.new_context, returned a context (ok) or raised; lines
\* 150-157 and 470-484.  An exception goes to the handler of line 500.
StepNewCtx(r) ==
  /\ pc[r] = "new_ctx"
  /\ \E ok \in BOOLEAN :
       /\ Outcome(ok)
       /\ IF ok
            THEN /\ browser_context' = "session"
                 /\ pc' = [pc EXCEPT ![r] =
                             IF stop_requested THEN "login_failed"
                             ELSE AfterSetupPc]
            ELSE /\ pc' = [pc EXCEPT ![r] = "login_failed"]
                 /\ UNCHANGED browser_context
  /\ UNCHANGED <<available_posts, is_running, is_paused, stop_requested,
                 browser, use_cookie_login>>
  /\ UNCHANGED <<envVars, bgVars, histVars>>
  /\ UNCHANGED <<posts, i, consecutive_failures, retry_count,
                 results, wait_left, fin_how, fin_val, ret, exit>>

\* _verify_cookie_login returned its verdict (it catches every Exception,
\* lines 423-425); lines 488-497
StepVerify(r) ==
  /\ pc[r] = "verify"
  /\ \E cookie_success \in BOOLEAN :
       OnlyPc(r, IF cookie_success THEN "login_ok" ELSE "login_failed")

\* login_xiaohongshu returned False and line 899 returned; lines 902-907
StepLoginFailed(r) ==
  /\ pc[r] = "login_failed"
  /\ NoEvent
  /\ path' = [path EXCEPT ![r] = "login"]
  /\ Finish(r, "return", LoginFailedReturn(results[r]))
  /\ FinishFrame
  /\ UNCHANGED <<consecutive_failures, results>>
  /\ UNCHANGED <<attempts, last_verdict, opened, stop_called>>

\* login_xiaohongshu returned True and lines 910-918 returned their awaits;
\* lines 916-925 and the loop head for the first item.  The argument
\* max_posts is first read here (line 916).
StepLoginOk(r) ==
  /\ pc[r] = "login_ok"
  /\ NoEvent
  /\ \E m \in MaxPostsArgs :
     LET todo == Take(posts[r], m)
     IN /\ posts' = [posts EXCEPT ![r] = todo]
        /\ attempts' = [attempts EXCEPT ![r] = [k \in 1..Len(todo) |-> 0]]
        /\ i' = [i EXCEPT ![r] = 1]
        /\ pc' = [pc EXCEPT ![r] =
                    IF stop_requested THEN "complete"
                    ELSE IF is_paused THEN "paused"
                    ELSE AfterPausePc(0)]
  /\ path' = [path EXCEPT ![r] = "loop"]
  /\ UNCHANGED <<agentVars, envVars, bgVars>>
  /\ UNCHANGED <<consecutive_failures, retry_count, results, wait_left, fin_how,
                 fin_val, ret, exit>>
  /\ UNCHANGED <<last_verdict, opened, stop_called>>

\* line 941, asyncio.sleep(1) of the pause loop, returned; lines 942-960
StepPaused(r) ==
  /\ pc[r] = "paused"
  /\ OnlyPc(r, IF stop_requested THEN "complete"
               ELSE IF is_paused THEN "paused"
               ELSE AfterPausePc(consecutive_failures[r]))

\* line 955 returned; line 960: break
StepBreaker(r) ==
  /\ pc[r] = "breaker"
  /\ OnlyPc(r, "complete")

\* lines 1020-1049: the result is stamped and appended, the failure counter
\* reset or incremented
Record(r, res, rc) ==
  /\ results' = [results EXCEPT ![r] = Append(results[r], Stamp(res, i[r], rc))]
  /\ consecutive_failures' =
       [consecutive_failures EXCEPT ![r] =
          IF res.success THEN 0 ELSE consecutive_failures[r] + 1]
  /\ pc' = [pc EXCEPT ![r] = IF res.success THEN "succ_status" ELSE "fail_status"]

\* post_to_xiaohongshu up to line 692: browser_agent.run is awaited
StartAttempt(r) ==
  /\ attempts' = [attempts EXCEPT ![r][i[r]] = @ + 1]
  /\ pc' = [pc EXCEPT ![r] = "agent_run"]
  /\ UNCHANGED <<results, consecutive_failures>>

\* Frame of the steps of the item's try block
ItemFrame ==
  /\ UNCHANGED <<agentVars, envVars>>
  /\ UNCHANGED <<posts, i, wait_left, fin_how, fin_val, ret, exit>>
  /\ UNCHANGED <<opened, stop_called, path>>

\* lines 966-980 returned; lines 988-1009 and post_to_xiaohongshu lines
\* 568-692.  A stop seen at line 993 leaves result = None, and result.update
\* of line 1020 raises into the handler of line 1091.  An item without an
\* image is answered at once (lines 650-661).
StepItemStart(r) ==
  /\ pc[r] = "item_start"
  /\ NoEvent
  /\ retry_count' = [retry_count EXCEPT ![r] = 0]
  /\ last_verdict' = [last_verdict EXCEPT ![r] = "none"]
  /\ IF stop_requested
       THEN ItemException(r) /\ UNCHANGED attempts
       ELSE IF ~img[post_data(r)]
         THEN Record(r, NoImageRecord, 0) /\ UNCHANGED attempts
         ELSE StartAttempt(r)
  /\ ItemFrame
  /\ UNCHANGED bgVars

\* How an attempt can end: browser_agent.run returns a result, raises
\* an error that names the browser, the context or the connection, raises
\* another error, or task.cancel() throws a CancelledError at the await
AttemptEnds == {"text", "raise_conn", "raise_other", "cancelled"}

NoText == [succ |-> FALSE, fail |-> FALSE, retry |-> FALSE, url |-> FALSE,
           maxsteps |-> FALSE, len |-> 0]

\* post_to_xiaohongshu, lines 691-817: the dict it returns
AttemptResult(kind, t) ==
  IF kind = "text" THEN VerdictRecord(Classify(t))
  ELSE IF stop_requested THEN StoppedRecord
  ELSE IF kind = "raise_conn" THEN ConnLostRecord
  ELSE IF kind = "raise_other" THEN AgentExcRecord
  ELSE CancelledRecord

\* A result that comes with a deletion scheduled whatever the verdict
Schedules_always(res) == TRUE

\* lines 782-801: _schedule_delete_post_directory is called in the two
\* branches that set actual_success to True, and nowhere else
Schedules(res) == res.success

VerdictOf(res) ==
  IF res.success THEN "success"
  ELSE IF res.retry_needed THEN "retryable"
  ELSE "failed"

\* line 692 is over; lines 693-817 and 1012-1049.  A CancelledError is taken
\* by the handler of line 693 like any other error.  A publication schedules
\* the deletion of the source directory (lines 787, 800).
StepAgentRun(r) ==
  /\ pc[r] = "agent_run"
  /\ \E kind \in AttemptEnds :
     \E t \in IF kind = "text" THEN ResultTexts ELSE {NoText} :
       /\ Outcome(kind = "text")
       /\ collab = "failing" => ~(kind = "text" /\ Classify(t) = "success")
       /\ LET res == AttemptResult(kind, t)
          IN /\ last_verdict' =
                  [last_verdict EXCEPT ![r] =
                     IF ShouldRetry(res, retry_count[r]) /\ ~stop_requested
                       THEN VerdictOf(res) ELSE "none"]
             /\ del_sched' = IF Schedules(res) THEN del_sched \cup {post_data(r)}
                             ELSE del_sched
             /\ IF ShouldRetry(res, retry_count[r])
                  THEN /\ retry_count' = [retry_count EXCEPT ![r] = @ + 1]
                       /\ IF stop_requested
                            THEN Record(r, res, retry_count[r] + 1)
                            ELSE /\ pc' = [pc EXCEPT ![r] = "retry_wait"]
                                 /\ UNCHANGED <<results, consecutive_failures>>
                  ELSE /\ Record(r, res, retry_count[r])
                       /\ UNCHANGED retry_count
  /\ ItemFrame
  /\ UNCHANGED <<del_run, stop_pc, attempts>>

\* lines 998 and 1007 returned; line 1009 and post_to_xiaohongshu lines
\* 568-692: a stop request is answered without an attempt
StepRetryWait(r) ==
  /\ pc[r] = "retry_wait"
  /\ NoEvent
  /\ IF stop_requested
       THEN Record(r, StoppedRecord, retry_count[r]) /\ UNCHANGED attempts
       ELSE StartAttempt(r)
  /\ ItemFrame
  /\ last_verdict' = [last_verdict EXCEPT ![r] = "none"]
  /\ UNCHANGED <<bgVars, retry_count>>

\* Frame of the steps that move the loop on
LoopFrame ==
  /\ NoEvent
  /\ UNCHANGED <<agentVars, envVars, bgVars, histVars>>
  /\ UNCHANGED <<posts, consecutive_failures, retry_count, results,
                 fin_how, fin_val, ret, exit>>

\* line 1035 returned; lines 1046-1047 and the loop head for the next item
StepSuccStatus(r) ==
  /\ pc[r] = "succ_status"
  /\ NextItem(r, i[r] + 1, consecutive_failures[r])
  /\ UNCHANGED wait_left
  /\ LoopFrame

\* line 1055 returned; lines 1067-1081: the backoff loop is entered when
\* another item follows and no stop is requested
StepFailStatus(r) ==
  /\ pc[r] = "fail_status"
  /\ IF i[r] < Len(posts[r]) /\ ~stop_requested
       THEN /\ wait_left' = [wait_left EXCEPT ![r] =
                               WaitTime(consecutive_failures[r])]
            /\ pc' = [pc EXCEPT ![r] = "backoff"]
            /\ UNCHANGED i
       ELSE /\ NextItem(r, i[r] + 1, consecutive_failures[r])
            /\ UNCHANGED wait_left
  /\ LoopFrame

\* lines 1081 and 1089 returned: one second of the backoff is over; lines
\* 1071-1073 for the next second, or the loop head for the next item
StepBackoff(r) ==
  /\ pc[r] = "backoff"
  /\ IF wait_left[r] > 1 /\ ~stop_requested
       THEN /\ wait_left' = [wait_left EXCEPT ![r] = @ - 1]
            /\ UNCHANGED <<pc, i>>
       ELSE /\ wait_left' = [wait_left EXCEPT ![r] = 0]
            /\ NextItem(r, i[r] + 1, consecutive_failures[r])
  /\ LoopFrame

\* line 1105 returned; the loop head for the next item
StepItemExc(r) ==
  /\ pc[r] = "item_exc"
  /\ NextItem(r, i[r] + 1, consecutive_failures[r])
  /\ UNCHANGED wait_left
  /\ LoopFrame

\* line 1121 or 1128 returned; the finally block, then line 1151
StepComplete(r) ==
  /\ pc[r] = "complete"
  /\ NoEvent
  /\ Finish(r, "return", results[r])
  /\ FinishFrame
  /\ UNCHANGED <<consecutive_failures, results, histVars>>

\* The call ends: the value of the return statement, or the CancelledError
Done(r) ==
  /\ pc' = [pc EXCEPT ![r] = "done"]
  /\ ret' = [ret EXCEPT ![r] = IF fin_how[r] = "return" THEN fin_val[r] ELSE <<>>]
  /\ exit' = [exit EXCEPT ![r] =
                IF fin_how[r] = "return" THEN "returned" ELSE "cancelled"]

\* close_browser of line 1148, lines 429-435: browser_context.close()
\* returned (the handle is dropped) or raised (logged, the handle is kept)
FinCloseCtx(r) ==
  /\ pc[r] = "fin_ctx"
  /\ \E ok \in BOOLEAN :
       /\ Outcome(ok)
       /\ browser_context' = IF ok THEN "None" ELSE browser_context
  /\ IF browser # "None"
       THEN pc' = [pc EXCEPT ![r] = "fin_brw"] /\ UNCHANGED <<ret, exit>>
       ELSE Done(r)
  /\ UNCHANGED <<available_posts, is_running, is_paused, stop_requested,
                 browser, use_cookie_login>>
  /\ UNCHANGED <<envVars, bgVars, histVars>>
  /\ UNCHANGED <<posts, i, consecutive_failures, retry_count,
                 results, wait_left, fin_how, fin_val>>

\* close_browser of line 1148, lines 437-443: browser.close() returned or
\* raised
FinCloseBrw(r) ==
  /\ pc[r] = "fin_brw"
  /\ \E ok \in BOOLEAN :
       /\ Outcome(ok)
       /\ browser' = IF ok THEN "None" ELSE browser
  /\ Done(r)
  /\ UNCHANGED <<available_posts, is_running, is_paused, stop_requested,
                 browser_context, use_cookie_login>>
  /\ UNCHANGED <<envVars, bgVars, histVars>>
  /\ UNCHANGED <<posts, i, consecutive_failures, retry_count,
                 results, wait_left, fin_how, fin_val>>

\* A background deletion task takes a step
Deletion(d) == DeleteStart(d) \/ DeleteThread(d)

\* ------------------------------------------------------------------- Next
\* The steps a run takes whatever the length of its queue
RunStepSingle(r) ==
  \/ Invoke(r) \/ ResetCloseCtx(r) \/ ResetCloseBrw(r)
  \/ StepStart(r) \/ StepEmpty(r)
  \/ StepLoginPre(r) \/ StepNewCtx(r) \/ StepVerify(r)
  \/ StepLoginFailed(r) \/ StepLoginOk(r)
  \/ StepPaused(r) \/ StepItemStart(r)
  \/ StepAgentRun(r) \/ StepRetryWait(r)
  \/ StepSuccStatus(r) \/ StepFailStatus(r)
  \/ StepItemExc(r) \/ StepComplete(r) \/ FinCloseCtx(r) \/ FinCloseBrw(r)
  \/ CancelOutsideTry(r) \/ CancelInTry(r)
  \/ CallbackFailsOuter(r) \/ CallbackFailsItem(r) \/ CallbackFailsLogin(r)

\* The circuit breaker and the wait between two items need a second item
RunStep(r) ==
  \/ RunStepSingle(r)
  \/ StepBreaker(r) \/ StepBackoff(r)

Next ==
  \/ \E r \in Callers : RunStep(r)
  \/ Pause \/ Resume \/ RequestStop \/ SignalHandler
  \/ StopCall \/ StopCloseCtx \/ StopCloseBrw
  \/ \E d \in Range(content) : Deletion(d)

Spec == Init /\ [][Next]_vars

\* ---- background deletions under a fair event loop
\* The directories a queue of at most MaxQueue items names
AllDirs == 1..MaxQueue

\* Next for a queue of at most MaxQueue = 1 items: with one item the breaker
\* and the wait between items have nothing to act on
NextLive ==
  \/ \E r \in Callers : RunStepSingle(r)
  \/ Pause \/ Resume \/ RequestStop \/ SignalHandler
  \/ StopCall \/ StopCloseCtx \/ StopCloseBrw
  \/ \E d \in Range(content) : Deletion(d)

\* asyncio.create_task hands the deletion to the event loop, which runs every
\* task that is ready, and asyncio.to_thread's worker returns: a deletion
\* that can take a step eventually takes it.  Nothing else is forced.
SpecLive ==
  InitAny /\ [][NextLive]_vars /\ \A d \in AllDirs : WF_vars(Deletion(d))

\* ---- runs to their end
\* One call on a queue of TermQueue items with images, TermEvents
\* environment events
InitQueueOfTwo ==
  /\ content = [k \in 1..TermQueue |-> k]
  /\ img = [d \in 1..TermQueue |-> TRUE]
  /\ use_cookie_login = TRUE
  /\ collab = "any"
  /\ probe = NoProbe
  /\ ui = NoUi
  /\ store = NoStore
  /\ InitObject
  /\ events_left = TermEvents /\ runs_left = 1

\* One call on the longer queue, or up to MaxRuns calls, one after the other,
\* on a queue of at most MaxQueue items
InitTerm == InitQueueOfTwo \/ InitAny

\* Next for a queue of TermQueue = 2 items: the circuit breaker needs three
\* failed items
NextTerm ==
  \/ \E r \in Callers : RunStepSingle(r) \/ StepBackoff(r)
  \/ Pause \/ Resume \/ RequestStop \/ SignalHandler
  \/ StopCall \/ StopCloseCtx \/ StopCloseBrw
  \/ \E d \in Range(content) : Deletion(d)

\* The steps run r takes when the call it awaits is over: a collaborator
\* call, a status callback or a sleep that returns (or, for a collaborator,
\* raises)
Progress(r) ==
  \/ ResetCloseCtx(r) \/ ResetCloseBrw(r)
  \/ StepStart(r) \/ StepEmpty(r)
  \/ StepLoginPre(r) \/ StepNewCtx(r) \/ StepVerify(r)
  \/ StepLoginFailed(r) \/ StepLoginOk(r)
  \/ StepPaused(r) \/ StepItemStart(r)
  \/ StepAgentRun(r) \/ StepRetryWait(r)
  \/ StepSuccStatus(r) \/ StepFailStatus(r) \/ StepBackoff(r)
  \/ StepItemExc(r) \/ StepComplete(r) \/ FinCloseCtx(r) \/ FinCloseBrw(r)

\* Every call the run awaits comes back: a run that can take a step
\* eventually takes one.  The environment is not forced to do anything.
SpecTerm ==
  InitTerm /\ [][NextTerm]_vars /\ \A r \in Callers : WF_vars(Progress(r))

\* ---- overlapping calls
\* Next for two tasks that call run_posting_task on the same agent, neither
\* awaiting the other (queue of at most MaxQueue = 1 items)
NextOverlap ==
  \/ \E r \in Runs : RunStepSingle(r)
  \/ Pause \/ Resume \/ RequestStop \/ SignalHandler
  \/ StopCall \/ StopCloseCtx \/ StopCloseBrw
  \/ \E d \in Range(content) : Deletion(d)

SpecOverlap == InitOverlap /\ [][NextOverlap]_vars

\* ---- the web UI tab
\* The agent behind the tab: run_xiaohongshu_task builds it and calls
\* run_posting_task once, with no status callback
InitUi ==
  /\ \E n \in 0..MaxQueue : content = [k \in 1..n |-> k]
  /\ img \in [1..MaxQueue -> BOOLEAN]
  /\ \A d \in 1..MaxQueue : d > Len(content) => img[d]
  /\ use_cookie_login \in BOOLEAN
  /\ collab = "any"
  /\ probe = NoProbe
  /\ ui = NoUi
  /\ store = NoStore
  /\ InitObject
  /\ events_left = MaxEvents /\ runs_left = 1

\* Frame of a step of the tab that leaves the agent alone
UiFrame ==
  UNCHANGED <<agentVars, envVars, budgetVars, bgVars, runVars, histVars,
              probeVars, storeVars>>

\* The start button is clicked: run_xiaohongshu_task, tab lines 100-143, up
\* to its first yield
ClickStart ==
  /\ ui.handler = "idle" /\ ui.start_interactive
  /\ ui' = [handler |-> "llm", start_interactive |-> FALSE,
            stop_interactive |-> TRUE, output |-> "starting"]
  /\ UiFrame

\* tab lines 145-168: _initialize_llm returned; without an LLM the handler
\* gives the buttons back and ends, with one the agent is built
LlmInitialized ==
  /\ ui.handler = "llm"
  /\ \E ok \in BOOLEAN :
       ui' = IF ok
               THEN [ui EXCEPT !.handler = "running", !.output = "launching"]
               ELSE [handler |-> "returned", start_interactive |-> TRUE,
                     stop_interactive |-> FALSE, output |-> "llm_failed"]
  /\ UiFrame

\* tab lines 170-196: run_posting_task returned, the results are shown
ShowResults ==
  /\ ui.handler = "running"
  /\ \E r \in Callers : pc[r] = "done" /\ exit[r] = "returned"
  /\ ui' = [handler |-> "returned", start_interactive |-> TRUE,
            stop_interactive |-> FALSE, output |-> "results"]
  /\ UiFrame

\* The stop button is clicked: stop_xiaohongshu_task, tab lines 208-222.
\* The handler holds no reference to the agent of the start handler
ClickStop ==
  /\ ui.stop_interactive
  /\ ui' = [ui EXCEPT !.output = "stopped", !.start_interactive = TRUE,
                      !.stop_interactive = FALSE]
  /\ UiFrame

\* tab line 170: the start handler calls run_posting_task
TabInvoke(r) == ui.handler = "running" /\ Invoke(r)

\* The steps of the run behind the tab: it is called once, on a new agent,
\* with no status callback, and no task cancels it
RunStepUi(r) ==
  \/ TabInvoke(r)
  \/ StepStart(r) \/ StepEmpty(r)
  \/ StepLoginPre(r) \/ StepNewCtx(r) \/ StepVerify(r)
  \/ StepLoginFailed(r) \/ StepLoginOk(r)
  \/ StepItemStart(r)
  \/ StepAgentRun(r) \/ StepRetryWait(r)
  \/ StepSuccStatus(r) \/ StepFailStatus(r)
  \/ StepComplete(r) \/ FinCloseCtx(r) \/ FinCloseBrw(r)

NextUi ==
  \/ ClickStart \/ LlmInitialized \/ ShowResults \/ ClickStop
  \/ \E r \in Callers : RunStepUi(r)
  \/ \E d \in Range(content) : Deletion(d)

SpecUi == InitUi /\ [][NextUi]_vars

\* ---- the cookie store
CookieNames == {"a1", "web_session"}
CookieValues == {"v1", "v2"}
CookieDomains == {".xiaohongshu.com"}

\* The cookie lists handed to save_cookies: at most MaxCookies records
CookieLists ==
  UNION { [1..n -> { Cookie(n1, v, d) : n1 \in CookieNames,
                                         v \in CookieValues,
                                         d \in CookieDomains }] :
          n \in 0..MaxCookies }

\* The list an earlier save left in the store
PreviousCookies == <<Cookie("a1", "v0", ".xiaohongshu.com")>>

\* A cookie manager over a directory in which the store file is absent or
\* holds the document of an earlier save
InitStore ==
  /\ content = <<>>
  /\ img = [d \in 1..MaxQueue |-> TRUE]
  /\ use_cookie_login = TRUE
  /\ collab = "any"
  /\ InitAgent
  /\ probe = NoProbe
  /\ ui = NoUi
  /\ \/ store = NoStore
     \/ store = [NoStore EXCEPT !.exists = TRUE,
                                !.text = Encode(PreviousCookies)]

StoreFrame ==
  UNCHANGED <<agentVars, envVars, budgetVars, bgVars, runVars, histVars,
              probeVars, uiVars>>

\* save_cookies, lines 137-147: open(self.cookie_file, 'w') creates the file
\* or truncates it to nothing; when open raises the file is as before
SaveOpen ==
  /\ store.save_pc = "idle"
  /\ \E cookies \in CookieLists, ok \in BOOLEAN :
       store' = IF ok
                  THEN [store EXCEPT !.exists = TRUE, !.text = <<>>,
                                     !.save_pc = "writing",
                                     !.save_arg = cookies]
                  ELSE [store EXCEPT !.save_pc = "done",
                                     !.save_arg = cookies,
                                     !.save_ret = "False"]
  /\ StoreFrame

\* json.dump, line 147: the buffer of the file object is written out when
\* it is full, so that the file holds a longer part of the document
SaveFlush ==
  /\ store.save_pc = "writing"
  /\ \E n \in (Len(store.text) + 1)..(Len(Encode(store.save_arg)) - 1) :
       store' = [store EXCEPT !.text = SubSeq(Encode(store.save_arg), 1, n)]
  /\ StoreFrame

\* The with block ends, lines 146-150: the rest is written and the file
\* closed; or a write raises (lines 152-154) and the file stays as it is
SaveClose ==
  /\ store.save_pc = "writing"
  /\ \E ok \in BOOLEAN :
       store' = IF ok
                  THEN [store EXCEPT !.text = Encode(store.save_arg),
                                     !.save_pc = "done", !.save_ret = "True"]
                  ELSE [store EXCEPT !.save_pc = "done", !.save_ret = "False"]
  /\ StoreFrame

\* load_saved_cookies, lines 156-174: [] without a store file, else the
\* cookies of the document read, [] when reading or parsing raises
LoadSaved ==
  /\ store.load_pc = "idle"
  /\ store' = [store EXCEPT
                 !.load_pc = "done",
                 !.load_found = store.exists,
                 !.load_saw = store.text,
                 !.load_after_save = (store.save_pc = "done"),
                 !.load_ret = IF store.exists THEN Decode(store.text)
                              ELSE <<>>]
  /\ StoreFrame

NextStore == SaveOpen \/ SaveFlush \/ SaveClose \/ LoadSaved

SpecStore == InitStore /\ [][NextStore]_vars

\* ================================================= functions of the agent
\* The classifier of post_to_xiaohongshu, the path check of the cleanup and
\* the queue removal are functions of their input alone.  SpecPure applies
\* each of them to every input of a bounded set.

\* ---- paths.  A path is the sequence of its components below the file
\* system root; ".." is a component like any other until the path is used.
posts_dir == <<"posts">>

PathNames == {"posts", "a", "out", ".."}

RECURSIVE SeqsUpTo(_, _)
\* The sequences over S of at most n elements
SeqsUpTo(S, n) ==
  IF n = 0 THEN {<<>>}
  ELSE LET shorter == SeqsUpTo(S, n - 1)
       IN shorter \cup { Append(s, x) : s \in shorter, x \in S }

\* The directories of the file system: the root, the content root with one
\* content directory, and a directory tree outside the content root
Tree == {<<>>, <<"posts">>, <<"posts", "a">>, <<"out">>, <<"out", "a">>}

IsPrefix(a, b) == Len(a) <= Len(b) /\ SubSeq(b, 1, Len(a)) = a

RECURSIVE Resolve(_)
\* The directory the operating system reaches through path p: ".." leads to
\* the parent (the root is its own parent)
Resolve(p) ==
  IF p = <<>> THEN <<>>
  ELSE LET up == Resolve(SubSeq(p, 1, Len(p) - 1))
       IN IF p[Len(p)] = ".."
            THEN (IF up = <<>> THEN <<>> ELSE SubSeq(up, 1, Len(up) - 1))
            ELSE Append(up, p[Len(p)])

\* Path.exists(), line 283: every directory on the way is there
Exists(p) == \A n \in 1..Len(p) : Resolve(SubSeq(p, 1, n)) \in Tree

\* PurePath.is_relative_to, line 289: a comparison of the components as
\* written; ".." is not resolved and a path is relative to itself
is_relative_to(p, root) == IsPrefix(root, p)

\* _delete_post_directory_async, lines 277-299, for source_dir p: the
\* directories that shutil.rmtree removes
Cleanup(p) ==
  IF p = <<>> THEN {}
  ELSE IF ~Exists(p) THEN {}
  ELSE IF ~is_relative_to(p, posts_dir) THEN {}
  ELSE { l \in Tree : IsPrefix(Resolve(p), l) }

\* ---- the scanner of one content directory
\* file_path.suffix.lower(), line 214
Lower(ext) ==
  CASE ext = ".JPG" -> ".jpg"
    [] ext = ".PNG" -> ".png"
    [] OTHER -> ext

\* lines 209-210; of the nine image suffixes the two the inputs use
image_extensions == {".png", ".jpg"}
text_extensions == {".txt", ".md"}

\* lines 212-221: a regular file with an image suffix
IsImage(f) == f.is_file /\ Lower(f.ext) \in image_extensions

\* lines 224-231: a regular text file that is not blank
IsText(f) == f.is_file /\ Lower(f.ext) \in text_extensions /\ ~f.blank

\* Scanner that keeps the image discovered last
ScanPostDirectory_last(files) ==
  LET imgs == SelectSeq(files, IsImage)
      txts == SelectSeq(files, IsText)
  IN  IF imgs = <<>> /\ txts = <<>> THEN NoPost
      ELSE [produced |-> TRUE,
            images |-> IF imgs = <<>> THEN <<>> ELSE <<imgs[Len(imgs)].name>>,
            has_text |-> txts # <<>>]

\* _scan_post_directory, lines 197-252, over the entries of the directory
\* in iteration order: the images found, cut to the first one (lines
\* 237-241); None when there is neither image nor text (lines 244-247)
ScanPostDirectory(files) ==
  LET imgs == SelectSeq(files, IsImage)
      txts == SelectSeq(files, IsText)
  IN  IF imgs = <<>> /\ txts = <<>> THEN NoPost
      ELSE [produced |-> TRUE,
            images |-> IF imgs = <<>> THEN <<>> ELSE <<imgs[1].name>>,
            has_text |-> txts # <<>>]

\* ---- the inputs
ProbeDirs == 1..2

\* The entries a content directory may hold: files and sub-directories
DirEntries ==
  { [name |-> n, ext |-> e, is_file |-> f, blank |-> b] :
      n \in {"a", "b"}, e \in {".png", ".JPG", ".txt"},
      f \in BOOLEAN, b \in BOOLEAN }

\* Listings without a repeated file name
Listings ==
  { l \in SeqsUpTo(DirEntries, MaxFiles) :
      \A j, k \in 1..Len(l) :
        (j # k) => <<l[j].name, l[j].ext>> # <<l[k].name, l[k].ext>> }

\* The calls of _verify_cookie_login: the URL matters only when the page
\* was reached
Visits ==
  { v \in [cookie_success : BOOLEAN, has_context : BOOLEAN, raises : BOOLEAN,
           current_url : SeqsUpTo(UrlParts, MaxUrlLen)] :
      /\ (~v.cookie_success \/ ~v.has_context \/ v.raises) => v.current_url = <<>>
      /\ ~v.has_context => ~v.raises }

InitPure ==
  /\ content = <<>>
  /\ img = [d \in 1..MaxQueue |-> TRUE]
  /\ use_cookie_login = TRUE
  /\ collab = "any"
  /\ InitAgent
  /\ ui = NoUi
  /\ store = NoStore
  /\ \/ \E t \in ResultTexts :
          probe = [NoProbe EXCEPT !.fn = "classify", !.text = t]
     \/ \E p \in SeqsUpTo(PathNames, MaxPathLen) :
          probe = [NoProbe EXCEPT !.fn = "cleanup", !.source_dir = p]
     \/ \E l \in Listings :
          probe = [NoProbe EXCEPT !.fn = "scan", !.files = l]
     \/ \E s \in CookieSources :
          probe = [NoProbe EXCEPT !.fn = "load_cookies", !.sources = s]
     \/ \E v \in Visits :
          probe = [NoProbe EXCEPT !.fn = "verify", !.visit = v]
     \/ \E recs \in SeqsUpTo(FileRecords, MaxRecords) :
          probe = [NoProbe EXCEPT !.fn = "validate", !.records = recs]
     \/ \E q \in SeqsUpTo(ProbeDirs, MaxProbeQueue) :
        \E d \in ProbeDirs \cup {0} :
          probe = [NoProbe EXCEPT !.fn = "remove", !.queue = q, !.dir = d,
                                  !.out = q]

PureFrame ==
  UNCHANGED <<agentVars, envVars, budgetVars, bgVars, runVars, histVars, uiVars, storeVars>>

\* post_to_xiaohongshu, lines 723-817, applied to a result text
ApplyClassifier ==
  /\ probe.fn = "classify" /\ probe.n = 0
  /\ probe' = [probe EXCEPT !.n = 1, !.verdict = Classify(probe.text)]
  /\ PureFrame

\* _delete_post_directory_async, lines 277-299, applied to a source_dir
ApplyCleanup ==
  /\ probe.fn = "cleanup" /\ probe.n = 0
  /\ probe' = [probe EXCEPT !.n = 1, !.removed = Cleanup(probe.source_dir)]
  /\ PureFrame

\* lines 303-306 applied to the live queue, a first and a second time
ApplyQueueRemoval ==
  /\ probe.fn = "remove" /\ probe.n < 2
  /\ probe' = [probe EXCEPT !.n = @ + 1, !.out = Filter(probe.out, {probe.dir})]
  /\ PureFrame

\* _scan_post_directory, lines 197-252, applied to a directory listing
ApplyScan ==
  /\ probe.fn = "scan" /\ probe.n = 0
  /\ probe' = [probe EXCEPT !.n = 1, !.post = ScanPostDirectory(probe.files)]
  /\ PureFrame

\* _load_cookies, lines 338-361, applied to a set of cookie sources
ApplyLoadCookies ==
  /\ probe.fn = "load_cookies" /\ probe.n = 0
  /\ probe' = [probe EXCEPT !.n = 1, !.cookies = LoadCookies(probe.sources)]
  /\ PureFrame

\* _verify_cookie_login, lines 380-425, applied to one visit
ApplyVerify ==
  /\ probe.fn = "verify" /\ probe.n = 0
  /\ probe' = [probe EXCEPT !.n = 1, !.valid = VerifyCookieLogin(probe.visit)]
  /\ PureFrame

\* load_cookies_from_file, lines 61-79, applied to the records of a file
ApplyValidation ==
  /\ probe.fn = "validate" /\ probe.n = 0
  /\ probe' = [probe EXCEPT !.n = 1, !.loaded = ValidRecords(probe.records)]
  /\ PureFrame

NextPure ==
  \/ ApplyClassifier \/ ApplyCleanup \/ ApplyQueueRemoval \/ ApplyScan
  \/ ApplyLoadCookies \/ ApplyVerify \/ ApplyValidation

SpecPure == InitPure /\ [][NextPure]_vars

\* ============================================================== properties
\* The call has returned a value to its caller
Returned(r) == pc[r] = "done" /\ exit[r] = "returned"

\* The run got past the login and entered the publishing loop
InLoop(r) == path[r] = "loop"

\* The positions of the records of queue item k in a result sequence
RecordsOf(seq, k) == { idx \in 1..Len(seq) : seq[idx].step_number = k }

\* Item k has ended, and in non-success
ItemFailed(r, k) ==
  /\ RecordsOf(results[r], k) # {}
  /\ \A idx \in RecordsOf(results[r], k) : ~results[r][idx].success

\* No publish attempt and no record for item j
Untouched(r, j) == attempts[r][j] = 0 /\ RecordsOf(results[r], j) = {}

\* ----------------------------------------------------------------------- C1
\* C1: once three consecutive queue items have each ended in non-success, no
\* later item is attempted or recorded.  With a queue of more than three
\* items that all fail and an undisturbed run, exactly the items 1..3 get an
\* attempt and one record each, the later items get neither and are still in
\* available_posts.
C1_CircuitBreaker ==
  \A r \in Runs : InLoop(r) =>
    /\ \A k \in 1..Len(posts[r]) :
         ( /\ k + 2 <= Len(posts[r])
           /\ ItemFailed(r, k) /\ ItemFailed(r, k + 1) /\ ItemFailed(r, k + 2) )
         => \A j \in (k + 3)..Len(posts[r]) : Untouched(r, j)
    /\ ( /\ collab = "failing" /\ events_left = MaxEvents
         /\ Returned(r) /\ Len(posts[r]) > max_failures )
       => /\ Len(ret[r]) = max_failures
          /\ \A k \in 1..max_failures :
               attempts[r][k] >= 1 /\ Cardinality(RecordsOf(ret[r], k)) = 1
          /\ \A j \in (max_failures + 1)..Len(posts[r]) :
               /\ Untouched(r, j)
               /\ RecordsOf(ret[r], j) = {}
               /\ posts[r][j] \in Range(available_posts)

\* A run over five failing items has returned three records
C1_Witness ==
  \E r \in Runs :
    /\ collab = "failing" /\ events_left = MaxEvents /\ Returned(r)
    /\ InLoop(r) /\ Len(posts[r]) = BreakerQueue
    /\ Len(ret[r]) = max_failures
    /\ attempts[r][max_failures] >= 1
    /\ attempts[r][max_failures + 1] = 0

\* ----------------------------------------------------------------------- C2
\* C2: an item gets at most max_retries + 1 = 3 publish attempts; every
\* attempt after the first follows an attempt that returned retry_needed
\* (the attempts of the item number one more than the retryable results
\* seen); a record that still carries retry_needed is a failure of the item.
C2_BoundedRetry ==
  \A r \in Runs : InLoop(r) =>
    /\ \A k \in 1..Len(posts[r]) : attempts[r][k] <= max_retries + 1
    /\ pc[r] = "agent_run" => attempts[r][i[r]] = retry_count[r] + 1
    /\ pc[r] = "retry_wait" =>
         /\ last_verdict[r] = "retryable"
         /\ attempts[r][i[r]] = retry_count[r]
         /\ retry_count[r] <= max_retries
    /\ \A idx \in 1..Len(results[r]) :
         /\ results[r][idx].retry_count <= max_retries
         /\ results[r][idx].retry_needed => ~results[r][idx].success

\* The third attempt of an item was retryable again and is its failure
C2_Witness ==
  \E r \in Runs :
    /\ InLoop(r) /\ pc[r] = "fail_status"
    /\ attempts[r][i[r]] = max_retries + 1
    /\ results[r][Len(results[r])].retry_needed
    /\ results[r][Len(results[r])].retry_count = max_retries

\* ----------------------------------------------------------------------- C3
\* C3 (as stated): whenever an invocation finishes and returns (normally,
\* after a stop request, or through a handled exception), is_running,
\* is_paused and stop_requested are all false when control returns to the
\* caller.
C3_FlagsIdleAtFinish ==
  [][ \A r \in Runs :
        (pc[r] # "done" /\ pc'[r] = "done" /\ exit'[r] = "returned")
        => (~is_running' /\ ~is_paused' /\ ~stop_requested') ]_vars

\* ----------------------------------------------------------------------- C4
\* C4 (as stated): on every exit of a run that opened a session, browser and
\* browser_context are None when control returns to the caller.
C4_SessionReleased ==
  [][ \A r \in Runs :
        (pc[r] # "done" /\ pc'[r] = "done" /\ opened[r])
        => (browser' = "None" /\ browser_context' = "None") ]_vars

\* ----------------------------------------------------------------------- C5
\* C5 (as stated): on every completion, an external cancellation included,
\* the caller receives the accumulated result sequence.
C5_AlwaysReturnsResults ==
  \A r \in Runs :
    (pc[r] = "done" /\ results[r] # <<>>)
    => (exit[r] = "returned" /\ ret[r] = results[r])

\* C5 (amended): on every completion that returns (normal, stopped, or
\* through an Exception), the value returned holds the accumulated records
\* unchanged and in queue order: it is the results list, every item that was
\* attempted has its record in it, and the records are in item order.
C5_ReturnsResults ==
  \A r \in Runs : Returned(r) =>
    /\ ret[r] = results[r] \/ (results[r] = <<>> /\ Len(ret[r]) = 1)
    /\ InLoop(r) =>
         /\ \A k \in 1..Len(posts[r]) :
              attempts[r][k] >= 1 => RecordsOf(ret[r], k) # {}
         /\ \A a, b \in 1..Len(ret[r]) :
              (a < b /\ ~ret[r][b].fatal)
              => ret[r][a].step_number <= ret[r][b].step_number

\* A run returned its records followed by the fatal record
C5_Witness ==
  \E r \in Runs :
    /\ Returned(r) /\ Len(ret[r]) >= 2
    /\ ret[r][Len(ret[r])].fatal
    /\ ret[r][1].step_number = 1

\* ----------------------------------------------------------------------- C6
\* C6 (as stated): while a run is between its start and its finalization, no
\* step sets stop_requested back to false.
C6_StopMonotonic ==
  [][ \A r \in Runs :
        (pc[r] \in TryAwaits /\ stop_requested) => stop_requested' ]_vars

\* ----------------------------------------------------------------------- C7
\* C7 (as stated): once request_stop() has been called during a run, the run
\* starts no further publish attempt.
C7_NoAttemptAfterStop ==
  [][ \A r \in Runs :
        (stop_called[r] /\ pc'[r] = "agent_run") => pc[r] = "agent_run" ]_vars

\* ----------------------------------------------------------------------- C8
\* C8 (as stated): after a cancellation was delivered while the run awaited
\* the publish attempt of item k, no later queue item is attempted.
C8_CancelStopsLoop ==
  \A r \in Runs : InLoop(r) =>
    \A idx \in 1..Len(results[r]) :
      results[r][idx].error = CancelledRecord.error
      => \A j \in (results[r][idx].step_number + 1)..Len(posts[r]) :
           attempts[r][j] = 0

\* ----------------------------------------------------------------------- C9
\* C9: when the queue is empty the browser is never set up and nothing is
\* attempted, and the run returns exactly one failure record: the synthetic
\* "no content" record, unless the status callback raised (the fatal record).
C9_EmptyQueue ==
  \A r \in Runs : path[r] = "empty" =>
    /\ ~opened[r] /\ attempts[r] = <<>> /\ results[r] \in {<<>>, <<FatalRecord>>}
    /\ Returned(r) =>
         /\ Len(ret[r]) = 1
         /\ ~ret[r][1].success
         /\ ret[r][1] \in {NoContentRecord, FatalRecord}

\* A run over an empty queue returned the synthetic record
C9_Witness ==
  \E r \in Runs :
    /\ path[r] = "empty" /\ Returned(r)
    /\ ret[r] = <<NoContentRecord>> /\ ~opened[r]

\* ---------------------------------------------------------------------- C10
\* C10: when the login fails nothing is published: no attempt was made when
\* the login is found failed, the run returns exactly one record, the
\* synthetic login failure, and it leaves is_running false, so that a new run
\* starts without a reset.
C10_LoginFailure ==
  \A r \in Runs :
    /\ pc[r] = "login_failed" => (attempts[r] = <<>> /\ results[r] = <<>>)
    /\ path[r] = "login" =>
         /\ attempts[r] = <<>>
         /\ Returned(r) =>
              /\ ret[r] = <<LoginFailedRecord>>
              /\ ~ret[r][1].success
              /\ ~is_running

\* A run whose login failed has returned, with runs still to start
C10_Witness ==
  \E r \in Runs :
    /\ path[r] = "login" /\ Returned(r)
    /\ ret[r] = <<LoginFailedRecord>>
    /\ runs_left > 0

\* ---------------------------------------------------------------------- C11
\* C11 (as stated): a status callback that raises does not abort the run: a
\* run that entered the publishing loop is never ended by the fatal handler
\* while a queue item is still without a record.
C11_CallbackFailureHarmless ==
  \A r \in Runs :
    (InLoop(r) /\ \E idx \in 1..Len(results[r]) : results[r][idx].fatal)
    => \A k \in 1..Len(posts[r]) : RecordsOf(results[r], k) # {}

\* ---------------------------------------------------------------------- C12
\* C12 (as stated): for every source_dir handed to the cleanup, only proper
\* descendants of the content root are removed.
C12_CleanupStaysInside ==
  (probe.fn = "cleanup" /\ probe.n = 1)
  => \A l \in probe.removed : IsPrefix(posts_dir, l) /\ l # posts_dir

\* ---------------------------------------------------------------------- C13
\* C13 (as stated): an item whose deletion was scheduled after a success is
\* out of the live queue at once, so no run makes a publish attempt for an
\* item whose deletion is scheduled or under way.
C13_NeverRepublished ==
  \A r \in Runs :
    (InLoop(r) /\ pc[r] = "agent_run")
    => post_data(r) \notin (del_sched \cup del_run)

\* ---------------------------------------------------------------------- C14
\* C14: under a fair event loop every deletion scheduled for a directory that
\* exists is eventually applied: the tree is removed and the item dropped
\* from the live queue.
C14_EventuallyApplied ==
  \A d \in AllDirs :
    (d \in del_sched /\ d \in disk)
    ~> (d \notin disk /\ d \notin Range(available_posts))

\* ---------------------------------------------------------------------- C15
\* C15: the queue removal of a cleanup, applied once or twice, leaves exactly
\* the entries whose source_dir differs from the deleted one, in their
\* order; for a source_dir that is absent the queue is unchanged.
C15_RemovalByIdentity ==
  (probe.fn = "remove" /\ probe.n >= 1)
  => /\ probe.out = SelectSeq(probe.queue, LAMBDA x : x # probe.dir)
     /\ probe.dir \notin Range(probe.queue) => probe.out = probe.queue

\* The removal was applied twice to a queue that holds the deleted
\* directory before and after another entry
C15_Witness ==
  /\ probe.fn = "remove" /\ probe.n = 2
  /\ Len(probe.queue) = 3
  /\ probe.queue[1] = probe.dir /\ probe.queue[3] = probe.dir
  /\ probe.queue[2] # probe.dir
  /\ probe.out = <<probe.queue[2]>>

\* ---------------------------------------------------------------------- C16
\* The classifier has been applied to the text of the probe
Classified == probe.fn = "classify" /\ probe.n = 1

\* C16: a text with a retryable marker and neither a success marker nor
\* published=true in the full result is classified retryable, also when a
\* hard-failure marker occurs in it.
C16_RetryablePrecedence ==
  (Classified /\ probe.text.retry /\ ~probe.text.succ /\ ~probe.text.url)
  => probe.verdict = "retryable"

\* A text with a retryable and a hard-failure marker was classified
C16_Witness ==
  /\ Classified
  /\ probe.text.retry /\ probe.text.fail
  /\ ~probe.text.succ /\ ~probe.text.url
  /\ probe.verdict = "retryable"

\* ---------------------------------------------------------------------- C17
\* C17: a text with a success marker, or a full result with published=true,
\* is classified success whatever failure or retryable markers occur.
C17_SuccessPrecedence ==
  (Classified /\ (probe.text.succ \/ probe.text.url))
  => probe.verdict = "success"

\* "error occurred" with published=true in the full result was classified
C17_Witness ==
  /\ Classified
  /\ probe.text.url /\ ~probe.text.succ
  /\ probe.text.fail /\ probe.text.retry
  /\ probe.verdict = "success"

\* ---------------------------------------------------------------------- C18
\* C18: with no success, structural or retryable marker, a hard-failure
\* marker gives a hard failure; with no marker at all the text is a hard
\* failure if it is shorter than ShortText characters or holds the
\* maximum-steps marker, and a success otherwise.  Every text gets one of
\* the three verdicts.
C18_Fallback ==
  Classified
  => LET t == probe.text
         unmarked == ~t.succ /\ ~t.url /\ ~t.retry
     IN  /\ probe.verdict \in {"retryable", "hard", "success"}
         /\ (unmarked /\ t.fail) => probe.verdict = "hard"
         /\ (unmarked /\ ~t.fail /\ (t.len < ShortText \/ t.maxsteps))
            => probe.verdict = "hard"
         /\ (unmarked /\ ~t.fail /\ t.len >= ShortText /\ ~t.maxsteps)
            => probe.verdict = "success"

\* The empty text was classified
C18_Witness ==
  /\ Classified
  /\ ~probe.text.succ /\ ~probe.text.url /\ ~probe.text.retry
  /\ ~probe.text.fail /\ probe.text.len = 0
  /\ probe.verdict = "hard"

\* ---------------------------------------------------------------------- C19
RECURSIVE FailedItemsUpTo(_, _)
\* The number of consecutive failed items of run r that end with item k
FailedItemsUpTo(r, k) ==
  IF k = 0 \/ ~ItemFailed(r, k) THEN 0 ELSE 1 + FailedItemsUpTo(r, k - 1)

\* C19: a queue item without an image gets no publish attempt and at most one
\* record, a failure with retry_count 0 that asks for no retry; once recorded
\* it counts as one failed item for the circuit breaker.
C19_NoImageItem ==
  \A r \in Runs : InLoop(r) =>
    \A k \in 1..Len(posts[r]) :
      ~img[posts[r][k]]
      => /\ attempts[r][k] = 0
         /\ Cardinality(RecordsOf(results[r], k)) <= 1
         /\ \A idx \in RecordsOf(results[r], k) :
              results[r][idx].error = "no_image"
              => /\ ~results[r][idx].success
                 /\ ~results[r][idx].retry_needed
                 /\ results[r][idx].retry_count = 0
         /\ (i[r] = k /\ pc[r] \in {"fail_status", "backoff", "item_exc"})
            => consecutive_failures[r] = FailedItemsUpTo(r, k)

\* ---------------------------------------------------------------------- C20
\* C20: a call of run_posting_task that finds is_running or stop_requested
\* set (request_stop() was called, once or more, with no run active) closes
\* every handle it holds and starts with stop_requested and is_paused False,
\* no handle, and is_running True; the run then reads the queue instead of
\* returning at the stop check of line 869.
C20_StopIdempotent ==
  [][ \A r \in Runs :
        /\ (pc[r] # "start" /\ pc'[r] = "start")
           => /\ is_running'
              /\ (pc[r] \in {"reset_ctx", "reset_brw"}
                    \/ is_running \/ stop_requested)
                 => /\ ~stop_requested' /\ ~is_paused'
                    /\ browser' = "None" /\ browser_context' = "None"
              /\ (pc[r] \in {"idle", "done"} /\ (is_running \/ stop_requested))
                 => (browser = "None" /\ browser_context = "None")
              /\ pc[r] = "reset_ctx" => browser = "None"
        /\ ( /\ pc[r] = "start" /\ pc'[r] # "start"
             /\ ~stop_requested /\ events_left' = events_left )
           => /\ pc'[r] \in {"empty", "login_pre"}
              /\ posts'[r] = IF available_posts # <<>> THEN available_posts
                             ELSE Scan ]_vars

\* The first run was called after two stop requests and has read the queue
C20_Witness ==
  \E r \in Runs :
    /\ path[r] = "after_stop" /\ pc[r] = "login_pre"
    /\ runs_left = MaxRuns - 1 /\ events_left = MaxEvents - 2
    /\ is_running /\ ~stop_requested /\ ~is_paused
    /\ posts[r] # <<>>

\* ---------------------------------------------------------------------- C21
\* C21: at no time are two publish attempts in flight on one agent, and at
\* most one call of run_posting_task is under way, also when the method is
\* called again before an earlier call has finished.
C21_SerialSession ==
  /\ Cardinality({ r \in Runs : pc[r] = "agent_run" }) <= 1
  /\ Cardinality({ r \in Runs : Active(r) }) <= 1

\* ---------------------------------------------------------------------- C22
\* The result sequence of run r holds a fatal record
HasFatal(seq) == \E idx \in 1..Len(seq) : seq[idx].fatal

\* The run is in its finally block or over
Finalizing(r) == pc[r] \in {"fin_ctx", "fin_brw", "done"}

\* C22: when an exception reaches the handler of line 1137, one fatal record
\* is appended to the records accumulated so far, the finally block runs
\* (is_running is reset, close_browser is awaited), no item is attempted
\* afterwards, and the sequence returned is the accumulated records followed
\* by that one fatal record.
C22_FatalRunError ==
  [][ \A r \in Runs :
        /\ (~HasFatal(results[r]) /\ HasFatal(results'[r]))
           => /\ results'[r] = Append(results[r], FatalRecord)
              /\ ~is_running'
              /\ Finalizing(r)'
              /\ (browser # "None" \/ browser_context # "None")
                 => pc'[r] \in {"fin_ctx", "fin_brw"}
        /\ (HasFatal(results[r]) /\ HasFatal(results'[r]))
           => /\ results'[r] = results[r]
              /\ attempts'[r] = attempts[r]
              /\ Finalizing(r)'
              /\ exit'[r] = "returned" => ret'[r] = results[r] ]_vars

\* A run over several items returned its first record followed by the fatal
\* record, with items left that were never attempted
C22_Witness ==
  \E r \in Runs :
    /\ Returned(r) /\ InLoop(r)
    /\ Len(ret[r]) = 2
    /\ ~ret[r][1].fatal /\ ret[r][2].fatal
    /\ \E k \in 1..Len(posts[r]) : Untouched(r, k)

\* ---------------------------------------------------------------------- C23
\* The step appends a record to the results of run r
Appended(r) == Len(results'[r]) = Len(results[r]) + 1

\* C23: when the run observes a stop request while an item is in flight (at
\* the check of line 993 on resuming from the item's status emissions or
\* from the wait before a retry, or in the handler of line 693 when the
\* publish attempt raises), the record appended for the item is the
\* stopped-by-user record.
C23_StoppedByUser ==
  [][ \A r \in Runs :
        (Appended(r) /\ stop_requested /\ events_left' = events_left)
        => LET rec == results'[r][Len(results'[r])]
           IN  /\ pc[r] \in {"item_start", "retry_wait"}
                  => rec.error = "stopped_by_user"
               /\ pc[r] = "agent_run"
                  => rec.error \notin {"browser_disconnected",
                                       "agent_exception", ""} ]_vars

\* ---------------------------------------------------------------------- C24
\* C24: when the stop button's handler runs while the run started from the
\* tab is in progress, the agent's stop_requested becomes true, and once the
\* button was clicked the run starts no further publish attempt.
C24_StopButtonStops ==
  [][ \A r \in Callers :
        /\ (ui.output # "stopped" /\ ui'.output = "stopped" /\ Active(r))
           => stop_requested'
        /\ (ui.output = "stopped" /\ pc[r] # "agent_run")
           => pc'[r] # "agent_run" ]_vars

\* ---------------------------------------------------------------------- C25
\* C25: a load_saved_cookies that runs while save_cookies is under way reads
\* the whole document of the previous save or the whole document of the new
\* one, never an empty or a truncated file.
C25_StoreAtomic ==
  (store.load_pc = "done" /\ store.load_found)
  => \/ store.load_saw = Encode(PreviousCookies)
     \/ store.load_saw = Encode(store.save_arg)

\* ---------------------------------------------------------------------- C26
\* C26: a load_saved_cookies that follows a save_cookies(records) that
\* returned True yields the records saved, in number, order, name, value and
\* domain; with no store file it yields the empty sequence.
C26_RoundTrip ==
  store.load_pc = "done"
  => /\ (store.load_after_save /\ store.save_ret = "True")
        => /\ Len(store.load_ret) = Len(store.save_arg)
           /\ \A k \in 1..Len(store.save_arg) :
                /\ store.load_ret[k].name = store.save_arg[k].name
                /\ store.load_ret[k].value = store.save_arg[k].value
                /\ store.load_ret[k].domain = store.save_arg[k].domain
     /\ ~store.load_found => store.load_ret = <<>>

\* Two different cookies were saved over an earlier store and read back
C26_Witness ==
  /\ store.load_pc = "done" /\ store.load_after_save
  /\ store.save_ret = "True"
  /\ Len(store.save_arg) = 2 /\ store.save_arg[1] # store.save_arg[2]
  /\ store.load_ret = store.save_arg
  /\ store.load_saw # Encode(PreviousCookies)

\* ---------------------------------------------------------------------- C27
\* The positions of the image files in a listing
ImagePositions(files) ==
  { k \in 1..Len(files) :
      files[k].is_file /\ files[k].ext \in {".png", ".JPG"} }

\* C27: for a directory that holds at least one image file the item scanned
\* has exactly one image, the first image of the listing; no item has more
\* than one image.
C27_FirstImageOnly ==
  (probe.fn = "scan" /\ probe.n = 1)
  => /\ Len(probe.post.images) <= 1
     /\ ImagePositions(probe.files) # {}
        => /\ probe.post.produced
           /\ Len(probe.post.images) = 1
           /\ \E k \in ImagePositions(probe.files) :
                /\ \A j \in ImagePositions(probe.files) : k <= j
                /\ probe.post.images[1] = probe.files[k].name

\* A directory with a text file and two images after it was scanned
C27_Witness ==
  /\ probe.fn = "scan" /\ probe.n = 1
  /\ ImagePositions(probe.files) = {2, 3}
  /\ probe.files[2].name # probe.files[3].name
  /\ probe.post.images = <<probe.files[2].name>>

\* ---------------------------------------------------------------------- C28
\* Run r leaves the polling wait of the pause loop by a step of its own
LeavesPause(r) ==
  /\ pc[r] = "paused" /\ pc'[r] # "paused"
  /\ events_left' = events_left

\* C28: a run that finds is_paused set before an item waits and does not
\* begin the item; it leaves the wait only when is_paused is cleared or a
\* stop is requested; after a resume it goes on with that same item (or to
\* the circuit breaker's report), and after a stop request made during the
\* run it ends the loop without an attempt for that item or a later one.
C28_PauseResume ==
  [][ \A r \in Runs :
        LeavesPause(r)
        => /\ ~is_paused \/ stop_requested
           /\ i'[r] = i[r] /\ attempts'[r] = attempts[r]
           /\ stop_requested => pc'[r] = "complete"
           /\ ~stop_requested => pc'[r] \in {"item_start", "breaker"}
           /\ stop_called[r] => pc'[r] = "complete" ]_vars

\* ---------------------------------------------------------------------- C29
\* Run r goes from item i to item i + 1 and begins it (or meets the pause
\* wait or the circuit breaker in front of it)
BeginsNextItem(r) ==
  /\ i[r] >= 1 /\ i'[r] = i[r] + 1
  /\ pc'[r] \in {"item_start", "paused", "breaker"}

\* The last record of run r is a non-success
LastFailed(r) ==
  /\ Len(results[r]) > 0
  /\ ~results[r][Len(results[r])].success

\* C29: after an item whose result is a non-success and that is followed by
\* another item the run waits 5 + 3 * k one-second ticks before the next
\* item, k being the consecutive-failure count that includes the item that
\* just failed (8, 11, 14 ticks for k = 1, 2, 3); after a success the next
\* item follows without a wait.
C29_LinearBackoff ==
  [][ \A r \in Runs :
        /\ (pc[r] # "backoff" /\ pc'[r] = "backoff")
           => /\ LastFailed(r)
              /\ wait_left'[r] = 5 + 3 * consecutive_failures[r]
              /\ consecutive_failures[r] = 1 => wait_left'[r] = 8
              /\ consecutive_failures[r] = 2 => wait_left'[r] = 11
              /\ consecutive_failures[r] = 3 => wait_left'[r] = 14
        /\ (pc[r] = "backoff" /\ pc'[r] = "backoff")
           => /\ wait_left'[r] \in {wait_left[r], wait_left[r] - 1}
              /\ wait_left'[r] >= 1
        /\ BeginsNextItem(r)
           => IF LastFailed(r)
                THEN pc[r] = "backoff" /\ wait_left[r] = 1
                ELSE pc[r] = "succ_status" ]_vars

\* ---------------------------------------------------------------------- C30
\* The cookie lists of the sources in the order of precedence: the explicit
\* file, the persisted store, the default paths
SourcesInOrder(s) ==
  << IF s.cookie_file_path # "" /\ s.explicit.exists
       THEN s.explicit.cookies ELSE <<>>,
     s.saved >>
  \o [p \in default_paths |->
        IF s.defaults[p].exists THEN s.defaults[p].cookies ELSE <<>>]

RECURSIVE FirstNonEmpty(_)
FirstNonEmpty(lists) ==
  IF lists = <<>> THEN <<>>
  ELSE IF Head(lists) # <<>> THEN Head(lists)
  ELSE FirstNonEmpty(Tail(lists))

\* C30: _load_cookies tries the explicit cookie file, the persisted store and
\* the default paths in this order and uses the first source that yields a
\* non-empty cookie list, also when the explicit file exists but yields no
\* valid cookie.
C30_SourcePrecedence ==
  (probe.fn = "load_cookies" /\ probe.n = 1)
  => probe.cookies = FirstNonEmpty(SourcesInOrder(probe.sources))

\* ---------------------------------------------------------------------- C31
\* The URL holds a login or signin part, in any spelling
IsLoginUrl(url) ==
  \E k \in 1..Len(url) : url[k] \in {"login", "Login", "signin"}

\* C31: _verify_cookie_login answers False for every URL with a login or
\* signin part, True for a URL with the part of the authenticated area, and
\* False for every other URL; a failed cookie load and an exception of the
\* collaborator give False.
C31_AuthVerdict ==
  (probe.fn = "verify" /\ probe.n = 1)
  => LET v == probe.visit
     IN  /\ (~v.cookie_success \/ ~v.has_context \/ v.raises) => ~probe.valid
         /\ (v.cookie_success /\ v.has_context /\ ~v.raises)
            => /\ IsLoginUrl(v.current_url) => ~probe.valid
               /\ (~IsLoginUrl(v.current_url)
                   /\ Contains(v.current_url, "creator.xiaohongshu.com"))
                  => probe.valid
               /\ (~IsLoginUrl(v.current_url)
                   /\ ~Contains(v.current_url, "creator.xiaohongshu.com"))
                  => ~probe.valid

\* ---------------------------------------------------------------------- C32
\* The record has a non-empty name and a non-empty value, and the domain of
\* the platform or a name of the allow-list
Acceptable(c) ==
  /\ c.name \notin {Absent, ""} /\ c.value \notin {Absent, ""}
  /\ \/ c.domain = ".xiaohongshu.com"
     \/ LowerName(c.name) \in {"a1", "web_session"}

RECURSIVE AcceptableOf(_)
AcceptableOf(records) ==
  IF records = <<>> THEN <<>>
  ELSE IF Acceptable(Head(records))
         THEN <<WithDefaults(Head(records))>> \o AcceptableOf(Tail(records))
         ELSE AcceptableOf(Tail(records))

\* C32: load_cookies_from_file returns exactly the records that have a
\* non-empty name and a non-empty value and either the platform's domain or
\* a name of the allow-list; the other records are dropped and do not fail
\* the load of the rest.
C32_CookieValidation ==
  (probe.fn = "validate" /\ probe.n = 1)
  => probe.loaded = AcceptableOf(probe.records)

\* ---------------------------------------------------------------------- C33
RECURSIVE FailedSuffix(_)
\* The length of the longest suffix of non-success records
FailedSuffix(seq) ==
  IF seq = <<>> \/ seq[Len(seq)].success THEN 0
  ELSE 1 + FailedSuffix(SubSeq(seq, 1, Len(seq) - 1))

\* The records of the items: the record of the fatal handler, which ends the
\* run, is left out
ItemRecords(seq) == SelectSeq(seq, LAMBDA rec : ~rec.fatal)

\* C33: throughout a run consecutive_failures is the length of the longest
\* suffix of non-success item records of the results so far and is at most 3; a
\* successful item sets it to 0, and a failed item increments it once, by
\* one, with the item's first and only record.
C33_FailureCounter ==
  [][ \A r \in Runs :
        /\ consecutive_failures'[r] = FailedSuffix(ItemRecords(results'[r]))
        /\ consecutive_failures'[r] <= 3
        /\ (Appended(r) /\ results'[r][Len(results'[r])].success)
           => consecutive_failures'[r] = 0
        /\ consecutive_failures'[r] > consecutive_failures[r]
           => /\ consecutive_failures'[r] = consecutive_failures[r] + 1
              /\ Appended(r)
              /\ RecordsOf(results[r], i[r]) = {} ]_vars

\* ---------------------------------------------------------------------- C34
\* The record run r appends in this step
NewRecord(r) == results'[r][Len(results'[r])]

\* C34: a deletion is scheduled for a directory only in the step in which a
\* publish attempt for that item is classified a success and recorded, and
\* the item has no earlier success in the run; an attempt that ends in a
\* failure, a pending retry or a stop interruption, and an item without an
\* image, schedule nothing.
C34_CleanupOnlyAfterSuccess ==
  [][ /\ ~(del_sched' \subseteq del_sched)
         => \E r \in Runs :
              /\ pc[r] = "agent_run" /\ Appended(r)
              /\ NewRecord(r).success /\ NewRecord(r).step_number = i[r]
              /\ del_sched' = del_sched \cup {post_data(r)}
              /\ \A idx \in RecordsOf(results[r], i[r]) : ~results[r][idx].success
      /\ \A r \in Runs :
           (pc'[r] # pc[r] /\ ~(Appended(r) /\ NewRecord(r).success))
           => del_sched' \subseteq del_sched ]_vars

\* A deletion is scheduled for the item a run has just recorded a success for
C34_Witness ==
  \E r \in Runs :
    /\ pc[r] = "succ_status"
    /\ post_data(r) \in del_sched
    /\ results[r][Len(results[r])].success

\* ---------------------------------------------------------------------- C35
\* C35: while is_paused is set and no stop is requested no run starts a
\* publish attempt, be it the first attempt of an item or a retry.
C35_PausedNoAttempt ==
  [][ \A r \in Runs :
        (is_paused /\ ~stop_requested /\ pc'[r] = "agent_run")
        => pc[r] = "agent_run" ]_vars

\* ---------------------------------------------------------------------- C36
\* Run r passes line 857: the entry checks are over and the run begins
Begins(r) == pc[r] \in {"idle", "done", "reset_ctx", "reset_brw"} /\ pc'[r] = "start"

\* C36: a run does not inherit a pause: whatever control operations came
\* before the call, is_paused is clear when the run begins, so that the loop
\* reaches the first publish attempt without a resume().
C36_NoInheritedPause ==
  [][ \A r \in Runs : Begins(r) => ~is_paused' ]_vars

\* ---------------------------------------------------------------------- C37
\* C37: the retry_count of the record of an item is the number of publish
\* attempts made for the item minus one.  A call of post_to_xiaohongshu that
\* answers without the collaborator (no image, a stop seen at its entry) is
\* counted as the attempt it stands for; the records of the item's exception
\* handler and of the fatal handler carry no retry_count.
C37_RetryCountIsAttempts ==
  [][ \A r \in Runs :
        (Appended(r) /\ pc[r] \in {"item_start", "retry_wait", "agent_run"}
         /\ NewRecord(r).error # ItemErrorRecord(0).error
         /\ ~NewRecord(r).fatal)
        => NewRecord(r).retry_count =
             IF pc[r] = "agent_run" THEN attempts[r][i[r]] - 1
             ELSE attempts[r][i[r]] ]_vars

\* ---------------------------------------------------------------------- C38
\* The smaller of two numbers
Min(a, b) == IF a < b THEN a ELSE b

\* C38: when every awaited call comes back and is_paused does not stay set
\* for ever without a stop, a run that was started reaches its finally block;
\* the items it works on are the first min(max_posts, queue length) of the
\* queue, each with at most 3 publish attempts.
C38_Termination ==
  /\ [](\A r \in Runs : InLoop(r) =>
          /\ \E m \in MaxPostsArgs :
               posts[r] = Take(content, Min(m, Len(content)))
          /\ i[r] <= Len(posts[r])
          /\ \A k \in 1..Len(posts[r]) : attempts[r][k] <= 3)
  /\ ([]<>(~is_paused \/ stop_requested))
     => \A r \in Runs : Active(r) ~> Finalizing(r)

\* A run has worked on fewer items than the queue holds and is over
C38_Witness ==
  \E r \in Runs :
    /\ pc[r] = "done" /\ InLoop(r)
    /\ Len(posts[r]) = 1 /\ Len(content) = TermQueue
    /\ attempts[r][1] = 3
====
